---- MODULE Spec2Model ----
(***************************************************************************)
(* ICU transfer dashboard: the client-side real-time layer.                *)
(*                                                                         *)
(*   Transport Client  MLPredictionService.connectWebSocket / cleanup      *)
(*   Event Bus         addListener / removeListener / notifyListeners      *)
(*   Sync Coordinator  the two callback slots and the trigger*Refresh      *)
(*                     calls of the message handler, with the nurse        *)
(*                     dashboard's listeners                               *)
(*   Transfer workflow the role pages' actions on transfer requests        *)
(*   Domain Client     the HTTP operations and POST /predict               *)
(*   Fallback engine   fallbackPrediction and its scores                   *)
(*                                                                         *)
(* Nine specifications share the variables: Spec (transport), BusSpec      *)
(* (addListener / removeListener alone), SyncSpec (event bus and sync      *)
(* coordinator), LibSpec (the copy of the service in lib/ml-service.ts),   *)
(* VitalsSpec (the dashboard's vitals handler on full patient records),    *)
(* WorkflowSpec, BedSpec (the admin dashboard's bed assignment),           *)
(* FallbackSpec (the rule engine and callMLAPI) and ClientSpec (the        *)
(* Domain Client).                                                         *)
(***************************************************************************)
EXTENDS Integers, Sequences, FiniteSets, TLC

VARIABLES
    \* ---- Transport Client (static fields of MLPredictionService)
    socks,            \* every WebSocket object created so far: its readyState
    ws,               \* MLPredictionService.ws: index into socks, 0 = null
    isReconnecting,   \* MLPredictionService.isReconnecting
    timers,           \* pending setTimeout(() => connectWebSocket(), 5000)
    lastConnect,      \* outcome of the latest connectWebSocket() call
    lastBus,          \* the latest addListener / removeListener call
    \* ---- Event Bus and Sync Coordinator
    listeners,             \* MLPredictionService.listeners: event -> callbacks
    patientDataCallback,   \* MLPredictionService.patientDataCallback
    transferRequestCallback, \* MLPredictionService.transferRequestCallback
    mounted,               \* the mounted nurse dashboard instance (0 = none)
    nextInst,              \* dashboard instances mounted so far + 1
    inflight,              \* HTTP GETs issued and not yet completed (a set:
                           \* equal GETs in the same phase are one element)
    wsQueue,               \* messages pushed by the server, not yet handled
    srvPatients,           \* server: the active patients
    srvReqs,               \* server: the transfer-request collection
    ops,                   \* pushed events and refresh clicks so far (bounded)
    patients,              \* mounted dashboard's state: patients
    transferRequests,      \* mounted dashboard's state: transferRequests
    lastMsg,               \* what handling the latest message did
    lastDelivery,          \* the latest refetch result handed to a slot callback
    fetchFailed,           \* some GET failed
    \* ---- Transfer workflow (role pages)
    doctorReqs,            \* doctor review pages' state: transferRequests
    adminReqs,             \* admin dashboard's state: transferRequests
    bedAvailability,       \* admin dashboard's state: beds available
    dischargeCalls,        \* POST .../discharge calls issued, per request
    \* ---- Domain Client and the fallback rule engine, one call observed
    snapshot,              \* the Patient snapshot given to the prediction call
    prediction,            \* what the prediction call returned
    called,                \* the operation that was called
    httpLog,               \* HTTP requests the call issued, in order
    outcome,               \* what the call handed to its caller
    srvRequest             \* server: the transfer request the call is about

transportVars == <<socks, ws, isReconnecting, timers, lastConnect, lastBus>>
syncVars == <<listeners, patientDataCallback, transferRequestCallback, mounted,
              nextInst, inflight, wsQueue, srvPatients, srvReqs, ops,
              patients, transferRequests, lastMsg, lastDelivery, fetchFailed>>
workflowVars == <<doctorReqs, adminReqs, bedAvailability, dischargeCalls>>
clientVars == <<snapshot, prediction, called, httpLog, outcome, srvRequest>>
vars == <<transportVars, syncVars, workflowVars, clientVars>>

----------------------------------------------------------------------------
\* Bounds of the model

MaxSockets == 4
MaxTimers == 2
MaxPatients == 1
MaxHr == 1
MaxRequests == 1
MaxQueue == 1
MaxMounts == 1
MaxOps == 2
MaxListeners == 2
MaxDoctors == 2
MaxWorkflowRequests == 2
MaxClicks == 2
MaxSubscribers == 3
MaxCached == 2
MaxApprovals == 4

----------------------------------------------------------------------------
\* Transport Client

ReadyStates == {"CONNECTING", "OPEN", "CLOSING", "CLOSED"}

SockIds == 1..Len(socks)

Live(s) == socks[s] \in {"CONNECTING", "OPEN"}

LiveSockets == {s \in SockIds : Live(s)}

\* connectWebSocket(): ctorThrows is whether new WebSocket(...) throws.
\* connectWebSocket() without its first early return.
connectWebSocketUnguarded(ctorThrows) ==
    IF isReconnecting
    THEN lastConnect' = "noop_reconnecting" /\ UNCHANGED <<socks, ws, isReconnecting>>
    ELSE IF ctorThrows
    THEN isReconnecting' = FALSE /\ lastConnect' = "ctor_threw" /\ UNCHANGED <<socks, ws>>
    ELSE /\ socks' = Append(socks, "CONNECTING")
         /\ ws' = Len(socks) + 1
         /\ isReconnecting' = TRUE
         /\ lastConnect' = "created"

connectWebSocket(ctorThrows) ==
    IF ws # 0 /\ socks[ws] = "OPEN"
    THEN /\ lastConnect' = "noop_open"
         /\ UNCHANGED <<socks, ws, isReconnecting>>
    ELSE IF isReconnecting
    THEN /\ lastConnect' = "noop_reconnecting"
         /\ UNCHANGED <<socks, ws, isReconnecting>>
    ELSE IF ctorThrows
    THEN \* isReconnecting = true; the constructor throws; catch resets it
         /\ isReconnecting' = FALSE
         /\ lastConnect' = "ctor_threw"
         /\ UNCHANGED <<socks, ws>>
    ELSE /\ socks' = Append(socks, "CONNECTING")
         /\ ws' = Len(socks) + 1
         /\ isReconnecting' = TRUE
         /\ lastConnect' = "created"

\* Whether a call would create a socket (used to cap the number of sockets).
WouldCreate == ~(ws # 0 /\ socks[ws] = "OPEN") /\ ~isReconnecting

\* The older copy's connectWebSocket(): only the OPEN check guards it, the
\* constructor is not wrapped in a try and there is no reconnecting flag.
libConnectWebSocket(ctorThrows) ==
    IF ws # 0 /\ socks[ws] = "OPEN"
    THEN lastConnect' = "noop_open" /\ UNCHANGED <<socks, ws, isReconnecting>>
    ELSE IF ctorThrows
    THEN lastConnect' = "ctor_threw" /\ UNCHANGED <<socks, ws, isReconnecting>>
    ELSE /\ socks' = Append(socks, "CONNECTING")
         /\ ws' = Len(socks) + 1
         /\ lastConnect' = "created"
         /\ UNCHANGED isReconnecting

\* A page of the older copy calls connectWebSocket().
LibConnectCall ==
    /\ ~(ws # 0 /\ socks[ws] = "OPEN") => Len(socks) < MaxSockets
    /\ \E ctorThrows \in BOOLEAN : libConnectWebSocket(ctorThrows)
    /\ UNCHANGED <<timers, lastBus, syncVars, workflowVars, clientVars>>

\* The application calls connectWebSocket() (a page mounts, initialize()).
ConnectCall ==
    /\ WouldCreate => Len(socks) < MaxSockets
    /\ \E ctorThrows \in BOOLEAN : connectWebSocket(ctorThrows)
    /\ UNCHANGED <<timers, lastBus, syncVars, workflowVars, clientVars>>

\* A reconnect timer fires: () => this.connectWebSocket()
TimerFire ==
    /\ timers > 0
    /\ WouldCreate => Len(socks) < MaxSockets
    /\ timers' = timers - 1
    /\ \E ctorThrows \in BOOLEAN : connectWebSocket(ctorThrows)
    /\ UNCHANGED <<lastBus, syncVars, workflowVars, clientVars>>

\* ws.onopen
SocketOpen(s) ==
    /\ socks[s] = "CONNECTING"
    /\ socks' = [socks EXCEPT ![s] = "OPEN"]
    /\ isReconnecting' = FALSE
    /\ UNCHANGED <<ws, timers, lastConnect, lastBus, syncVars, workflowVars, clientVars>>

\* ws.onclose: isReconnecting = false; setTimeout(connectWebSocket, 5000)
onclose ==
    /\ isReconnecting' = FALSE
    /\ timers' = timers + 1

\* The connection fails (refused, dropped): readyState becomes CLOSED and the
\* browser fires error and then close; onerror also resets isReconnecting.
SocketFail(s) ==
    /\ Live(s)
    /\ timers < MaxTimers
    /\ socks' = [socks EXCEPT ![s] = "CLOSED"]
    /\ onclose
    /\ UNCHANGED <<ws, lastConnect, lastBus, syncVars, workflowVars, clientVars>>

\* The peer starts the closing handshake: readyState becomes CLOSING.
CloseStart(s) ==
    /\ socks[s] = "OPEN"
    /\ socks' = [socks EXCEPT ![s] = "CLOSING"]
    /\ UNCHANGED <<ws, isReconnecting, timers, lastConnect, lastBus, syncVars, workflowVars, clientVars>>

\* The closing handshake ends: readyState becomes CLOSED, close fires.
CloseDone(s) ==
    /\ socks[s] = "CLOSING"
    /\ timers < MaxTimers
    /\ socks' = [socks EXCEPT ![s] = "CLOSED"]
    /\ onclose
    /\ UNCHANGED <<ws, lastConnect, lastBus, syncVars, workflowVars, clientVars>>

\* WebSocket.close(): a live socket starts closing, otherwise nothing.
closed(s) == IF Live(s) THEN "CLOSING" ELSE socks[s]

NoListeners == [e \in {"vitals_update", "patient_updated", "patient_discharged",
                       "transfer_request_created", "transfer_request_updated",
                       "other"} |-> <<>>]

\* cleanup()
Cleanup ==
    /\ IF ws # 0
       THEN /\ socks' = [socks EXCEPT ![ws] = closed(ws)]
            /\ ws' = 0
       ELSE UNCHANGED <<socks, ws>>
    /\ listeners' = NoListeners
    /\ UNCHANGED <<isReconnecting, timers, lastConnect, lastBus>>
    /\ UNCHANGED <<patientDataCallback, transferRequestCallback, mounted,
                   nextInst, inflight, wsQueue, srvPatients, srvReqs, ops,
                   patients, transferRequests, lastMsg, lastDelivery, fetchFailed,
                   workflowVars, clientVars>>

----------------------------------------------------------------------------
\* Event Bus

\* Callback slot values: NullCallback is the initial null, NoopCallback the
\* () => {} an unmounting dashboard leaves behind, i > 0 the callback that
\* dashboard instance i registered.
NullCallback == 0
NoopCallback == -1

\* A subscriber: a handler of dashboard instance inst, or (inst = 0) another
\* page's listener, which either returns or throws.
Listener(fn, inst) == [fn |-> fn, inst |-> inst]

Throws(cb) == cb.fn = "throwingListener"

\* callbacks.lastIndexOf(callback), 1-based, 0 when absent
LastIndexOf(seq, x) ==
    IF \E i \in 1..Len(seq) : seq[i] = x
    THEN CHOOSE i \in 1..Len(seq) :
            seq[i] = x /\ \A j \in (i + 1)..Len(seq) : seq[j] # x
    ELSE 0

\* callbacks.indexOf(callback), 1-based, 0 when absent
IndexOf(seq, x) ==
    IF \E i \in 1..Len(seq) : seq[i] = x
    THEN CHOOSE i \in 1..Len(seq) :
            seq[i] = x /\ \A j \in 1..(i - 1) : seq[j] # x
    ELSE 0

\* callbacks.splice(index, 1)
RemoveAt(seq, i) == SubSeq(seq, 1, i - 1) \o SubSeq(seq, i + 1, Len(seq))

addListener(ls, event, cb) == [ls EXCEPT ![event] = Append(@, cb)]

removeListener(ls, event, cb) ==
    LET index == IndexOf(ls[event], cb)
    IN  IF index > 0 THEN [ls EXCEPT ![event] = RemoveAt(@, index)] ELSE ls

\* The event bus on its own: pages subscribe and unsubscribe two callbacks
\* on two events, each callback possibly more than once.
BusEvents == {"vitals_update", "other"}
BusCallbacks == {Listener("okListener", 0), Listener("throwingListener", 0)}

NoBus == [op |-> "none", event |-> "other", cb |-> Listener("none", 0),
          before |-> NoListeners]

busFrame ==
    <<socks, ws, isReconnecting, timers, lastConnect, patientDataCallback,
      transferRequestCallback, mounted, nextInst, inflight, wsQueue,
      srvPatients, srvReqs, ops, patients, transferRequests, lastMsg,
      lastDelivery, fetchFailed, workflowVars, clientVars>>

AddListener(event, cb) ==
    /\ Len(listeners[event]) < MaxSubscribers
    /\ listeners' = addListener(listeners, event, cb)
    /\ lastBus' = [op |-> "addListener", event |-> event, cb |-> cb,
                   before |-> listeners]
    /\ UNCHANGED busFrame

RemoveListener(event, cb) ==
    /\ listeners' = removeListener(listeners, event, cb)
    /\ lastBus' = [op |-> "removeListener", event |-> event, cb |-> cb,
                   before |-> listeners]
    /\ UNCHANGED busFrame

----------------------------------------------------------------------------
\* Nurse dashboard: fetches and listeners

\* A GET issued by the client.  cont is what runs on success:
\*   "slot"   .then(callback), the slot's callback as read when triggering
\*   "fetch"  fetchPatients / fetchTransferRequests of dashboard instance inst
\*   "init"   initializeData's first await, followed by fetchTransferRequests
Get(kind, cont, inst) ==
    [kind |-> kind, cont |-> cont, inst |-> inst, phase |-> "sent",
     pbody |-> <<>>, rbody |-> <<>>]

Request(id, pid, status) == [id |-> id, patient_id |-> pid, status |-> status]

handleVitalsUpdate(data, prevPatients) ==
    [i \in 1..Len(prevPatients) |->
        IF prevPatients[i].id = data.pid
        THEN [prevPatients[i] EXCEPT !.hr = data.hr]
        ELSE prevPatients[i]]

handleTransferRequestCreated(data, prev) ==
    Append(prev, Request(data.rid, data.pid, data.status))

handleTransferRequestUpdated(data, prev) ==
    [i \in 1..Len(prev) |->
        IF prev[i].id = data.rid
        THEN Request(data.rid, data.pid, data.status)
        ELSE prev[i]]

\* handlePatientDischarged: fetchPatients(); fetchTransferRequests()
handlePatientDischarged(inst, st) ==
    [st EXCEPT !.inflight = @ \cup {Get("patients", "fetch", inst),
                                    Get("requests", "fetch", inst)},
               !.getP = @ + 1,
               !.getR = @ + 1]

\* callback(data) for one subscriber; st is the state the handlers act on.
\* State setters of an unmounted instance change nothing that is rendered.
invoke(cb, data, st) ==
    LET st1 == [st EXCEPT !.invoked = Append(@, cb)]
        mine == cb.inst = mounted
    IN  CASE cb.fn = "handleVitalsUpdate" ->
                IF mine
                THEN [st1 EXCEPT !.patients = handleVitalsUpdate(data, @)]
                ELSE st1
          [] cb.fn = "handleTransferRequestCreated" ->
                IF mine
                THEN [st1 EXCEPT !.transferRequests =
                                    handleTransferRequestCreated(data, @)]
                ELSE st1
          [] cb.fn = "handleTransferRequestUpdated" ->
                IF mine
                THEN [st1 EXCEPT !.transferRequests =
                                    handleTransferRequestUpdated(data, @)]
                ELSE st1
          [] cb.fn = "handlePatientDischarged" ->
                handlePatientDischarged(cb.inst, st1)
          [] OTHER -> st1

\* lib/ml-service.ts: callbacks.forEach(callback => callback(data)), with no
\* try/catch around the call: the first throw ends the loop and leaves
\* notifyListeners.
RECURSIVE libForEach(_, _, _)
libForEach(callbacks, data, st) ==
    IF callbacks = <<>> THEN st
    ELSE IF Throws(Head(callbacks))
    THEN [invoke(Head(callbacks), data, st) EXCEPT !.escaped = TRUE]
    ELSE libForEach(Tail(callbacks), data, invoke(Head(callbacks), data, st))

\* lib/ml-service.ts: notifyListeners
libNotifyListeners(event, data, st) == libForEach(listeners[event], data, st)

\* callbacks.forEach(callback => { try { callback(data) } catch { log } })
RECURSIVE forEach(_, _, _)
forEach(callbacks, data, st) ==
    IF callbacks = <<>> THEN st
    ELSE forEach(Tail(callbacks), data, invoke(Head(callbacks), data, st))

notifyListeners(event, data, st) == forEach(listeners[event], data, st)

----------------------------------------------------------------------------
\* Sync Coordinator

EventTypes == {"vitals_update", "patient_updated", "patient_discharged",
               "transfer_request_created", "transfer_request_updated", "other"}

Msg(type, pid, rid, hr, status) ==
    [type |-> type, pid |-> pid, rid |-> rid, hr |-> hr, status |-> status]

Returned(v) == [threw |-> FALSE, value |-> v]
Thrown == [threw |-> TRUE, value |-> 0]

\* A frame on the wire: the text of a message the backend serialised, or
\* text that is not JSON.
stringify(m) == [json |-> TRUE, body |-> m]
NotJSON == [json |-> FALSE, body |-> Msg("", 0, 0, 0, "")]

\* A parser that makes an event of unknown type out of any text.
JSONparseLenient(text) ==
    IF text.json THEN Returned(text.body)
    ELSE Returned([text.body EXCEPT !.type = "other"])

\* JSON.parse(event.data): the object for JSON text, a SyntaxError otherwise
JSONparse(text) == IF text.json THEN Returned(text.body) ELSE Thrown

NoDelivery == [kind |-> "none", cb |-> NullCallback, atTrigger |-> NullCallback,
               atDelivery |-> NullCallback]

NoMsg == [type |-> "none", subs |-> <<>>, invoked |-> <<>>, escaped |-> FALSE,
          getP |-> 0, getR |-> 0, slotP |-> NullCallback, slotR |-> NullCallback,
          dropped |-> 0]

\* What the handler's catch leaves behind for a frame that did not parse:
\* console.error and nothing else.
Dropped ==
    [type |-> "<not JSON>", subs |-> <<>>, invoked |-> <<>>, escaped |-> FALSE,
     getP |-> 0, getR |-> 0, slotP |-> patientDataCallback,
     slotR |-> transferRequestCallback, dropped |-> lastMsg.dropped + 1]

\* The message handler's first condition, widened by a request event.
RefreshesPatientsWide(type) ==
    type \in {"vitals_update", "patient_updated", "patient_discharged",
              "transfer_request_updated"}

\* onmessage: the types after which triggerPatientDataRefresh() is called
RefreshesPatients(type) ==
    type \in {"vitals_update", "patient_updated", "patient_discharged"}

\* onmessage: the types after which triggerTransferRequestRefresh() is called
RefreshesTransferRequests(type) ==
    type \in {"transfer_request_created", "transfer_request_updated",
              "patient_discharged"}

\* triggerPatientDataRefresh()
triggerPatientDataRefresh(st) ==
    IF patientDataCallback # NullCallback
    THEN [st EXCEPT !.inflight = @ \cup {Get("patients", "slot", patientDataCallback)},
                    !.getP = @ + 1]
    ELSE st

\* triggerTransferRequestRefresh()
triggerTransferRequestRefresh(st) ==
    IF transferRequestCallback # NullCallback
    THEN [st EXCEPT !.inflight = @ \cup {Get("requests", "slot", transferRequestCallback)},
                    !.getR = @ + 1]
    ELSE st

\* ws.onmessage
OnMessage ==
    /\ wsQueue # <<>>
    /\ \E s \in SockIds : socks[s] = "OPEN"
    /\ LET parsed == JSONparse(Head(wsQueue))
           m == parsed.value
           st0 == [patients |-> patients, transferRequests |-> transferRequests,
                   inflight |-> inflight, invoked |-> <<>>, escaped |-> FALSE,
                   getP |-> 0, getR |-> 0]
           st1 == notifyListeners(m.type, m, st0)
           \* an exception leaving notifyListeners skips to the outer catch
           st2 == IF ~st1.escaped /\ RefreshesPatients(m.type)
                  THEN triggerPatientDataRefresh(st1)
                  ELSE st1
           st3 == IF ~st1.escaped /\ RefreshesTransferRequests(m.type)
                  THEN triggerTransferRequestRefresh(st2)
                  ELSE st2
       IN  /\ wsQueue' = Tail(wsQueue)
           /\ IF parsed.threw
              THEN /\ lastMsg' = Dropped
                   /\ UNCHANGED <<patients, transferRequests, inflight>>
              ELSE /\ patients' = st3.patients
                   /\ transferRequests' = st3.transferRequests
                   /\ inflight' = st3.inflight
                   /\ lastMsg' = [type |-> m.type,
                                  subs |-> listeners[m.type],
                                  invoked |-> st3.invoked,
                                  escaped |-> st3.escaped,
                                  getP |-> st3.getP,
                                  getR |-> st3.getR,
                                  slotP |-> patientDataCallback,
                                  slotR |-> transferRequestCallback,
                                  dropped |-> lastMsg.dropped]
    /\ UNCHANGED <<transportVars, workflowVars, clientVars, listeners, patientDataCallback,
                   transferRequestCallback, mounted, nextInst, srvPatients,
                   srvReqs, ops, lastDelivery, fetchFailed>>

\* lib/ml-service.ts: ws.onmessage: notifyListeners inside try/catch, no
\* refresh callbacks.
libOnMessage ==
    /\ wsQueue # <<>>
    /\ \E s \in SockIds : socks[s] = "OPEN"
    /\ LET parsed == JSONparse(Head(wsQueue))
           m == parsed.value
           st0 == [patients |-> patients, transferRequests |-> transferRequests,
                   inflight |-> inflight, invoked |-> <<>>, escaped |-> FALSE,
                   getP |-> 0, getR |-> 0]
           st1 == libNotifyListeners(m.type, m, st0)
       IN  /\ wsQueue' = Tail(wsQueue)
           /\ IF parsed.threw
              THEN /\ lastMsg' = Dropped
                   /\ UNCHANGED <<patients, transferRequests, inflight>>
              ELSE /\ patients' = st1.patients
                   /\ transferRequests' = st1.transferRequests
                   /\ inflight' = st1.inflight
                   /\ lastMsg' = [type |-> m.type,
                                  subs |-> listeners[m.type],
                                  invoked |-> st1.invoked,
                                  escaped |-> st1.escaped,
                                  getP |-> st1.getP,
                                  getR |-> st1.getR,
                                  slotP |-> patientDataCallback,
                                  slotR |-> transferRequestCallback,
                                  dropped |-> lastMsg.dropped]
    /\ UNCHANGED <<transportVars, workflowVars, clientVars, listeners, patientDataCallback,
                   transferRequestCallback, mounted, nextInst, srvPatients,
                   srvReqs, ops, lastDelivery, fetchFailed>>

\* The four addListener calls of the dashboard's effect
addDashboardListeners(ls, inst) ==
    addListener(
      addListener(
        addListener(
          addListener(ls, "vitals_update", Listener("handleVitalsUpdate", inst)),
          "transfer_request_created",
          Listener("handleTransferRequestCreated", inst)),
        "transfer_request_updated",
        Listener("handleTransferRequestUpdated", inst)),
      "patient_discharged",
      Listener("handlePatientDischarged", inst))

\* Dashboard useEffect: connectWebSocket(), both callbacks, four listeners,
\* then await fetchPatients() (fetchTransferRequests follows its completion).
Mount ==
    /\ mounted = 0
    /\ nextInst <= MaxMounts
    /\ WouldCreate => Len(socks) < MaxSockets
    /\ \E ctorThrows \in BOOLEAN : connectWebSocket(ctorThrows)
    /\ patientDataCallback' = nextInst
    /\ transferRequestCallback' = nextInst
    /\ listeners' = addDashboardListeners(listeners, nextInst)
    /\ inflight' = inflight \cup {Get("patients", "init", nextInst)}
    /\ mounted' = nextInst
    /\ nextInst' = nextInst + 1
    /\ patients' = <<>>
    /\ transferRequests' = <<>>
    /\ UNCHANGED <<timers, lastBus, wsQueue, srvPatients, srvReqs, ops, lastMsg,
                   lastDelivery, fetchFailed, workflowVars, clientVars>>

\* The effect's cleanup: the four listeners are removed and both slots are
\* overwritten with () => {}.
Unmount ==
    /\ mounted # 0
    /\ listeners' =
         removeListener(
           removeListener(
             removeListener(
               removeListener(listeners, "vitals_update",
                              Listener("handleVitalsUpdate", mounted)),
               "transfer_request_created",
               Listener("handleTransferRequestCreated", mounted)),
             "transfer_request_updated",
             Listener("handleTransferRequestUpdated", mounted)),
           "patient_discharged",
           Listener("handlePatientDischarged", mounted))
    /\ patientDataCallback' = NoopCallback
    /\ transferRequestCallback' = NoopCallback
    /\ mounted' = 0
    /\ patients' = <<>>
    /\ transferRequests' = <<>>
    /\ UNCHANGED <<transportVars, workflowVars, clientVars, nextInst, inflight, wsQueue, srvPatients,
                   srvReqs, ops, lastMsg, lastDelivery, fetchFailed>>

\* handleRefresh: fetchPatients(); fetchTransferRequests()
Refresh ==
    /\ mounted # 0
    /\ ops < MaxOps
    /\ ops' = ops + 1
    /\ inflight' = inflight \cup {Get("patients", "fetch", mounted),
                                 Get("requests", "fetch", mounted)}
    /\ UNCHANGED <<transportVars, workflowVars, clientVars, listeners, patientDataCallback,
                   transferRequestCallback, mounted, nextInst, wsQueue,
                   srvPatients, srvReqs, patients, transferRequests,
                   lastMsg, lastDelivery, fetchFailed>>

\* Another page subscribes a listener of its own (doctor review, admin and
\* common dashboards do), one that returns or one that throws.
Subscribe(event, fn) ==
    /\ Len(listeners[event]) < MaxListeners
    /\ listeners' = addListener(listeners, event, Listener(fn, 0))
    /\ UNCHANGED <<transportVars, workflowVars, clientVars, patientDataCallback, transferRequestCallback,
                   mounted, nextInst, inflight, wsQueue, srvPatients, srvReqs, ops, patients, transferRequests, lastMsg, lastDelivery,
                   fetchFailed>>

\* ... and unsubscribes it when it unmounts.
Unsubscribe(event, fn) ==
    /\ IndexOf(listeners[event], Listener(fn, 0)) > 0
    /\ listeners' = removeListener(listeners, event, Listener(fn, 0))
    /\ UNCHANGED <<transportVars, workflowVars, clientVars, patientDataCallback, transferRequestCallback,
                   mounted, nextInst, inflight, wsQueue, srvPatients, srvReqs, ops, patients, transferRequests, lastMsg, lastDelivery,
                   fetchFailed>>

\* The callback a slot-triggered GET hands its result to, if it were read
\* from the slot when the response arrives.
SlotTargetLate(f) ==
    IF f.kind = "patients" THEN patientDataCallback ELSE transferRequestCallback

\* getAllPatients().then(this.patientDataCallback): the argument of then() is
\* evaluated when the refresh is triggered.
SlotTarget(f) == f.inst

\* The backend answers a GET with its collection as of now.
ServerAnswer(f) ==
    /\ f.phase = "sent"
    /\ inflight' = (inflight \ {f}) \cup
            {[f EXCEPT
                !.phase = "answered",
                !.pbody = IF f.kind = "patients" THEN srvPatients ELSE <<>>,
                !.rbody = IF f.kind = "requests" THEN srvReqs ELSE <<>>]}
    /\ UNCHANGED <<transportVars, workflowVars, clientVars, listeners, patientDataCallback,
                   transferRequestCallback, mounted, nextInst, wsQueue,
                   srvPatients, srvReqs, ops, patients, transferRequests,
                   lastMsg, lastDelivery, fetchFailed>>

\* What follows a completed GET: initializeData goes on to
\* fetchTransferRequests() (fetchPatients catches its own errors).
Continue(f, fl) ==
    IF f.cont = "init" THEN fl \cup {Get("requests", "fetch", f.inst)} ELSE fl

\* A response arrives: the promise resolves and its continuation runs.
Deliver(f) ==
    /\ f.phase = "answered"
    /\ LET target == IF f.cont = "slot" THEN SlotTarget(f) ELSE f.inst
           sets == target = mounted /\ mounted # 0
       IN  /\ inflight' = Continue(f, inflight \ {f})
           /\ patients' = IF sets /\ f.kind = "patients" THEN f.pbody ELSE patients
           /\ transferRequests' =
                IF sets /\ f.kind = "requests" THEN f.rbody ELSE transferRequests
           /\ lastDelivery' =
                IF f.cont = "slot"
                THEN [kind |-> f.kind, cb |-> target,
                      atTrigger |-> f.inst,
                      atDelivery |-> SlotTargetLate(f)]
                ELSE lastDelivery
    /\ UNCHANGED <<transportVars, workflowVars, clientVars, listeners, patientDataCallback,
                   transferRequestCallback, mounted, nextInst, wsQueue,
                   srvPatients, srvReqs, ops, lastMsg, fetchFailed>>

\* A failed GET answered with a substitute: the empty list is handed on.
FetchFailSubstitutes(f) ==
    /\ inflight' = Continue(f, inflight \ {f})
    /\ fetchFailed' = TRUE
    /\ patients' = IF f.kind = "patients" THEN <<>> ELSE patients
    /\ transferRequests' = IF f.kind = "requests" THEN <<>> ELSE transferRequests
    /\ UNCHANGED <<transportVars, workflowVars, clientVars, listeners,
                   patientDataCallback, transferRequestCallback, mounted,
                   nextInst, wsQueue, srvPatients, srvReqs, ops, lastMsg,
                   lastDelivery>>

\* A GET fails (network error or non-2xx): the promise rejects, the error is
\* logged, no callback runs.
FetchFail(f) ==
    /\ inflight' = Continue(f, inflight \ {f})
    /\ fetchFailed' = TRUE
    /\ UNCHANGED <<transportVars, workflowVars, clientVars, listeners, patientDataCallback,
                   transferRequestCallback, mounted, nextInst, wsQueue,
                   srvPatients, srvReqs, ops, patients, transferRequests,
                   lastMsg, lastDelivery>>

----------------------------------------------------------------------------
\* Backend, as the client sees it: it changes its collections and pushes an
\* event for each change over the open socket.

InitialPatients == [p \in 1..MaxPatients |-> [id |-> p, hr |-> 0]]

Push(m) ==
    /\ ops < MaxOps
    /\ ops' = ops + 1
    /\ Len(wsQueue) < MaxQueue
    /\ wsQueue' = Append(wsQueue, stringify(m))

ServerUnchanged ==
    UNCHANGED <<transportVars, workflowVars, clientVars, listeners, patientDataCallback,
                transferRequestCallback, mounted, nextInst, inflight, patients,
                transferRequests, lastMsg, lastDelivery, fetchFailed>>

\* New vitals for a patient: pushed as vitals_update, or (a new prediction)
\* as patient_updated.
SrvPatientChange(type, i, hr) ==
    /\ i \in 1..Len(srvPatients)
    /\ srvPatients[i].hr # hr
    /\ srvPatients' = [srvPatients EXCEPT ![i].hr = hr]
    /\ Push(Msg(type, srvPatients[i].id, 0, hr, ""))
    /\ UNCHANGED srvReqs
    /\ ServerUnchanged

SrvRequestCreated(pid) ==
    /\ Len(srvReqs) < MaxRequests
    /\ \E i \in 1..Len(srvPatients) : srvPatients[i].id = pid
    /\ srvReqs' = Append(srvReqs, Request(Len(srvReqs) + 1, pid, "pending"))
    /\ Push(Msg("transfer_request_created", pid, Len(srvReqs) + 1, 0, "pending"))
    /\ UNCHANGED srvPatients
    /\ ServerUnchanged

SrvRequestUpdated(i, status) ==
    /\ i \in 1..Len(srvReqs)
    /\ \/ srvReqs[i].status = "pending" /\ status \in {"doctor_approved", "rejected"}
       \/ srvReqs[i].status = "doctor_approved" /\ status = "admin_approved"
    /\ srvReqs' = [srvReqs EXCEPT ![i].status = status]
    /\ Push(Msg("transfer_request_updated", srvReqs[i].patient_id, srvReqs[i].id,
                0, status))
    /\ UNCHANGED srvPatients
    /\ ServerUnchanged

\* Discharge: the request completes and the patient leaves the active roster.
SrvDischarged(i) ==
    /\ i \in 1..Len(srvReqs)
    /\ srvReqs[i].status = "admin_approved"
    /\ srvReqs' = [srvReqs EXCEPT ![i].status = "completed"]
    /\ srvPatients' = SelectSeq(srvPatients,
                                LAMBDA p : p.id # srvReqs[i].patient_id)
    /\ Push(Msg("patient_discharged", srvReqs[i].patient_id, srvReqs[i].id, 0,
                "completed"))
    /\ ServerUnchanged

\* A frame that is not JSON reaches the socket.
SrvMalformed ==
    /\ ops < MaxOps
    /\ ops' = ops + 1
    /\ Len(wsQueue) < MaxQueue
    /\ wsQueue' = Append(wsQueue, NotJSON)
    /\ UNCHANGED <<srvPatients, srvReqs>>
    /\ ServerUnchanged

\* An event of a type the client does not know.
SrvOther ==
    /\ Push(Msg("other", 0, 0, 0, ""))
    /\ UNCHANGED <<srvPatients, srvReqs>>
    /\ ServerUnchanged

----------------------------------------------------------------------------
\* Transfer workflow: the role pages act on their cached transferRequests;
\* the backend applies what it is sent.

\* mockBedAvailability["General Ward"].available
GeneralWardBeds == 3

Doctors == 1..MaxDoctors

ActiveStatuses == {"pending", "doctor_approved", "admin_approved"}

LegalEdges == {<<"pending", "doctor_approved">>, <<"pending", "rejected">>,
               <<"pending", "doctor_rejected">>,
               <<"doctor_approved", "admin_approved">>,
               <<"doctor_approved", "admin_rejected">>,
               <<"admin_approved", "completed">>}

\* POST /transfer-request: the draft is stored under a server-assigned id.
BackendCreate(reqs, pid) == Append(reqs, Request(Len(reqs) + 1, pid, "pending"))

\* PUT /transfer-request/{id}: the partial fields sent overwrite the stored ones.
BackendUpdate(reqs, requestId, status) ==
    [i \in 1..Len(reqs) |->
        IF reqs[i].id = requestId THEN [reqs[i] EXCEPT !.status = status]
        ELSE reqs[i]]

\* POST /transfer-request/{id}/discharge: the transfer completes ...
BackendDischarge(reqs, requestId) == BackendUpdate(reqs, requestId, "completed")

\* ... and its patient leaves the active roster.
BackendRoster(roster, reqs, requestId) ==
    SelectSeq(roster,
              LAMBDA p : \A i \in 1..Len(reqs) :
                            reqs[i].id = requestId => reqs[i].patient_id # p.id)

\* transferRequests.find(req => req.patient_id === patient.id &&
\*                              req.status === status) !== undefined
HasRequest(reqs, pid, status) ==
    \E i \in 1..Len(reqs) : reqs[i].patient_id = pid /\ reqs[i].status = status

\* PatientCard.getButtonState().disabled
getButtonState(reqs, pid, onLifeSupport, transferReady) ==
    IF HasRequest(reqs, pid, "pending") THEN TRUE
    ELSE IF HasRequest(reqs, pid, "doctor_approved") THEN TRUE
    ELSE IF HasRequest(reqs, pid, "rejected") THEN FALSE
    ELSE IF onLifeSupport THEN TRUE
    ELSE ~transferReady

\* adminApprovedRequest: the first cached admin_approved request of the patient
adminApprovedRequest(reqs, pid) ==
    reqs[CHOOSE i \in 1..Len(reqs) :
            /\ reqs[i].patient_id = pid /\ reqs[i].status = "admin_approved"
            /\ \A j \in 1..(i - 1) :
                 ~(reqs[j].patient_id = pid /\ reqs[j].status = "admin_approved")]

workflowFrame == <<transportVars, clientVars, listeners, patientDataCallback,
                   transferRequestCallback, mounted, nextInst, inflight, wsQueue,
                   ops, lastMsg, lastDelivery, fetchFailed>>

\* Nurse: 'Request Transfer' on a patient card, then handleNurseSubmit in the
\* modal: createTransferRequest({..., status: "pending"}).
NurseRequestTransfer(p) ==
    /\ p \in 1..Len(patients)
    /\ \E onLifeSupport \in BOOLEAN, transferReady \in BOOLEAN :
         ~getButtonState(transferRequests, patients[p].id, onLifeSupport,
                         transferReady)
    /\ Len(srvReqs) < MaxWorkflowRequests
    /\ srvReqs' = BackendCreate(srvReqs, patients[p].id)
    /\ UNCHANGED <<srvPatients, patients, transferRequests, workflowVars,
                   workflowFrame>>

\* Nurse: 'Shift Patient?' on a patient card: dischargePatient(request.id, nurse)
ShiftPatient(p) ==
    /\ p \in 1..Len(patients)
    /\ HasRequest(transferRequests, patients[p].id, "admin_approved")
    /\ LET request == adminApprovedRequest(transferRequests, patients[p].id)
       IN  /\ dischargeCalls[request.id] < MaxClicks
           /\ dischargeCalls' = [dischargeCalls EXCEPT ![request.id] = @ + 1]
           /\ srvReqs' = BackendDischarge(srvReqs, request.id)
           /\ srvPatients' = BackendRoster(srvPatients, srvReqs, request.id)
    /\ UNCHANGED <<patients, transferRequests, doctorReqs, adminReqs,
                   bedAvailability, workflowFrame>>

\* Nurse dashboard: fetchPatients(), on refresh or after a pushed event
NurseFetchPatients ==
    /\ patients # srvPatients
    /\ patients' = srvPatients
    /\ UNCHANGED <<srvPatients, srvReqs, transferRequests, workflowVars,
                   workflowFrame>>

\* Nurse dashboard: fetchTransferRequests(), on refresh or after a pushed event
NurseFetchTransferRequests ==
    /\ transferRequests # srvReqs
    /\ transferRequests' = srvReqs
    /\ UNCHANGED <<srvPatients, srvReqs, patients, workflowVars, workflowFrame>>

\* Doctor review: handleApprove on a request listed as pending:
\* updateTransferRequest(id, {status: "doctor_approved"}), fetchTransferRequests()
handleApprove(d, i) ==
    /\ i \in 1..Len(doctorReqs[d])
    /\ doctorReqs[d][i].status = "pending"
    /\ srvReqs' = BackendUpdate(srvReqs, doctorReqs[d][i].id, "doctor_approved")
    /\ doctorReqs' = [doctorReqs EXCEPT ![d] = srvReqs']
    /\ UNCHANGED <<srvPatients, patients, transferRequests, adminReqs,
                   bedAvailability, dischargeCalls, workflowFrame>>

\* Doctor review: handleReject on a request listed as pending:
\* updateTransferRequest(id, {status: "rejected"}), fetchTransferRequests()
handleReject(d, i) ==
    /\ i \in 1..Len(doctorReqs[d])
    /\ doctorReqs[d][i].status = "pending"
    /\ srvReqs' = BackendUpdate(srvReqs, doctorReqs[d][i].id, "rejected")
    /\ doctorReqs' = [doctorReqs EXCEPT ![d] = srvReqs']
    /\ UNCHANGED <<srvPatients, patients, transferRequests, adminReqs,
                   bedAvailability, dischargeCalls, workflowFrame>>

\* Doctor review: fetchTransferRequests(), on refresh or after a pushed event
DoctorFetchTransferRequests(d) ==
    /\ doctorReqs[d] # srvReqs
    /\ doctorReqs' = [doctorReqs EXCEPT ![d] = srvReqs]
    /\ UNCHANGED <<srvPatients, srvReqs, patients, transferRequests, adminReqs,
                   bedAvailability, dischargeCalls, workflowFrame>>

\* Admin dashboard: handleApproveTransfer on a request listed as
\* doctor_approved, with a bed available in the target department, run from
\* click to refetch with nothing in between (AdminApproveClick and
\* AdminApproveDone below are the same handler taken apart at its await).
handleApproveTransfer(i) ==
    /\ i \in 1..Len(adminReqs)
    /\ adminReqs[i].status = "doctor_approved"
    /\ bedAvailability # 0
    /\ srvReqs' = BackendUpdate(srvReqs, adminReqs[i].id, "admin_approved")
    /\ bedAvailability' = bedAvailability - 1
    /\ adminReqs' = srvReqs'
    /\ UNCHANGED <<srvPatients, patients, transferRequests, doctorReqs,
                   dischargeCalls, workflowFrame>>

\* Admin dashboard: handleRejectTransfer on a request listed as doctor_approved
handleRejectTransfer(i) ==
    /\ i \in 1..Len(adminReqs)
    /\ adminReqs[i].status = "doctor_approved"
    /\ srvReqs' = BackendUpdate(srvReqs, adminReqs[i].id, "admin_rejected")
    /\ adminReqs' = srvReqs'
    /\ UNCHANGED <<srvPatients, patients, transferRequests, doctorReqs,
                   bedAvailability, dischargeCalls, workflowFrame>>

\* Admin dashboard: fetchTransferRequests(), on refresh or after a pushed event
AdminFetchTransferRequests ==
    /\ adminReqs # srvReqs
    /\ adminReqs' = srvReqs
    /\ UNCHANGED <<srvPatients, srvReqs, patients, transferRequests, doctorReqs,
                   bedAvailability, dischargeCalls, workflowFrame>>

\* mockBedAvailability["ICU"].available
ICUBeds == 1

\* A PUT /transfer-request/{id} of handleApproveTransfer awaiting its answer
Approval(requestId, n) == [kind |-> "approve", rid |-> requestId, n |-> n]

bedFrame ==
    <<transportVars, clientVars, listeners, patientDataCallback,
      transferRequestCallback, mounted, nextInst, wsQueue, lastMsg,
      lastDelivery, fetchFailed, srvPatients, patients, transferRequests,
      doctorReqs, dischargeCalls>>

\* 'Approve & Assign Bed' on a listed request: the button is enabled while
\* hasBeds, the handler returns when available === 0 and otherwise awaits
\* updateTransferRequest(requestId, {status: "admin_approved", ...}).
AdminApproveClick(i) ==
    /\ i \in 1..Len(adminReqs)
    /\ adminReqs[i].status = "doctor_approved"
    /\ bedAvailability > 0
    /\ bedAvailability # 0
    /\ ops < MaxApprovals
    /\ ops' = ops + 1
    /\ inflight' = inflight \cup {Approval(adminReqs[i].id, ops + 1)}
    /\ UNCHANGED <<srvReqs, adminReqs, bedAvailability, bedFrame>>

\* The update succeeded: setBedAvailability(prev => available - 1), then
\* fetchTransferRequests().
AdminApproveDone(f) ==
    /\ f \in inflight
    /\ inflight' = inflight \ {f}
    /\ srvReqs' = BackendUpdate(srvReqs, f.rid, "admin_approved")
    /\ bedAvailability' = bedAvailability - 1
    /\ adminReqs' = srvReqs'
    /\ UNCHANGED <<ops, bedFrame>>

\* The update failed: the catch sets the error banner and nothing else.
AdminApproveFailed(f) ==
    /\ f \in inflight
    /\ inflight' = inflight \ {f}
    /\ UNCHANGED <<ops, srvReqs, adminReqs, bedAvailability, bedFrame>>

\* No role page has loaded anything yet.
WorkflowIdle ==
    /\ doctorReqs = [d \in Doctors |-> <<>>]
    /\ adminReqs = <<>>
    /\ bedAvailability = GeneralWardBeds
    /\ dischargeCalls = [r \in 1..MaxWorkflowRequests |-> 0]

----------------------------------------------------------------------------
\* Local fallback prediction (rule engine) and POST /predict.  Lactate,
\* creatinine, bilirubin and temperature are in tenths; stability and
\* confidence are in thousandths (1.0 - 0.3 is the double 0.7 in JavaScript,
\* so the comparison with 0.7 is the same on the scaled integers).

\* An optional field: undefined, or Some(value).
undefined == <<>>
Some(x) == <<x>>

\* JavaScript truthiness of an optional number: undefined and 0 are falsy.
Truthy(o) == o # undefined /\ o[1] # 0

\* The conditions of the comorbidity table.
weights == [c \in {"Diabetes", "Hypertension", "CAD", "CKD", "COPD", "Cancer",
                   "Cirrhosis"} |->
              IF c \in {"Diabetes", "Hypertension"} THEN 1
              ELSE IF c \in {"CAD", "CKD", "COPD"} THEN 2 ELSE 3]

\* Snapshots the calls are observed on.
Vitals ==
    [heartRate : {100, 130}, spO2 : {88, 99},
     temperature : {undefined, Some(986)},
     systolicBP : {90, 120}, diastolicBP : {undefined, Some(30), Some(80)},
     respiratoryRate : {16, 30}, gcs : {5, 12, 15}, lactate : {10, 52}]

Patients ==
    [age : {50, 80},
     vitals : {Some(v) : v \in Vitals},
     labValues : {undefined,
                  Some([creatinine |-> Some(40), bilirubin |-> undefined])},
     comorbidities : {undefined, Some(<<>>), Some(<<"Diabetes", "CKD", "COPD">>)},
     onVentilator : BOOLEAN, onPressors : BOOLEAN,
     comorbidityScore : {undefined, Some(2)}]

\* A snapshot that is not valid: the required vitals record is missing.
BrokenPatient ==
    [age |-> 50, vitals |-> undefined, labValues |-> undefined,
     comorbidities |-> undefined, onVentilator |-> FALSE, onPressors |-> FALSE,
     comorbidityScore |-> undefined]

\* (systolicBP + 2 * (diastolicBP || 60)) / 3, times 3.
map3(vitals) ==
    vitals.systolicBP
      + 2 * (IF Truthy(vitals.diastolicBP) THEN vitals.diastolicBP[1] ELSE 60)

\* patient.labValues?.<field>, 0 standing for a falsy value.
lab(patient, field) ==
    IF patient.labValues = undefined THEN 0
    ELSE IF Truthy(patient.labValues[1][field])
         THEN patient.labValues[1][field][1] ELSE 0

calculateSOFAScore(patient) ==
    LET v == patient.vitals[1]
        bilirubin == lab(patient, "bilirubin")
        creatinine == lab(patient, "creatinine")
    IN  (IF v.spO2 < 90 THEN 3 ELSE IF v.spO2 < 95 THEN 2
         ELSE IF v.spO2 < 98 THEN 1 ELSE 0)
      + (IF patient.onPressors THEN 4 ELSE IF map3(v) < 210 THEN 1 ELSE 0)
      + (IF bilirubin >= 120 THEN 4 ELSE IF bilirubin >= 60 THEN 3
         ELSE IF bilirubin >= 20 THEN 2 ELSE IF bilirubin >= 12 THEN 1 ELSE 0)
      + (IF creatinine >= 50 THEN 4 ELSE IF creatinine >= 35 THEN 3
         ELSE IF creatinine >= 20 THEN 2 ELSE IF creatinine >= 12 THEN 1 ELSE 0)
      + (IF v.gcs < 6 THEN 4 ELSE IF v.gcs < 10 THEN 3
         ELSE IF v.gcs < 13 THEN 2 ELSE IF v.gcs < 15 THEN 1 ELSE 0)

RECURSIVE reduce(_, _)
reduce(comorbidities, score) ==
    IF comorbidities = <<>> THEN score
    ELSE reduce(Tail(comorbidities),
                score + (IF Head(comorbidities) \in DOMAIN weights
                         THEN weights[Head(comorbidities)] ELSE 0))

\* A call's completion: a returned value, or a thrown error.

calculateComorbidityScore(comorbidities) ==
    IF comorbidities = undefined THEN Returned(0)
    ELSE Returned(reduce(comorbidities[1], 0))

\* lib/ml-service.ts: no guard, undefined.reduce is a TypeError.
libCalculateComorbidityScore(comorbidities) ==
    IF comorbidities = undefined THEN Thrown
    ELSE Returned(reduce(comorbidities[1], 0))

Max(a, b) == IF a >= b THEN a ELSE b
Min(a, b) == IF a <= b THEN a ELSE b

assessVitalStability(vitals) ==
    LET hr == IF vitals.heartRate < 60 \/ vitals.heartRate > 120 THEN 200
              ELSE IF vitals.heartRate < 50 \/ vitals.heartRate > 140 THEN 400
              ELSE 0
        ox == IF vitals.spO2 < 95 THEN 300
              ELSE IF vitals.spO2 < 92 THEN 500 ELSE 0
        bp == IF map3(vitals) < 195 \/ vitals.systolicBP > 180 THEN 300 ELSE 0
        temp == IF Truthy(vitals.temperature)
                   /\ (vitals.temperature[1] > 1015 \/ vitals.temperature[1] < 960)
                THEN 200 ELSE 0
        resp == IF vitals.respiratoryRate > 24 \/ vitals.respiratoryRate < 12
                THEN 200 ELSE 0
    IN  Max(0, 1000 - hr - ox - bp - temp - resp)

\* The factors of identifyRiskFactors before the comorbidity test.
factorsBeforeComorbidities(patient) ==
    LET v == patient.vitals[1]
    IN  (IF patient.onVentilator THEN <<"Mechanical ventilation">> ELSE <<>>)
        \o (IF patient.onPressors THEN <<"Vasopressor support">> ELSE <<>>)
        \o (IF v.gcs < 15 THEN <<"Altered mental status">> ELSE <<>>)
        \o (IF v.lactate > 20 THEN <<"Elevated lactate">> ELSE <<>>)
        \o (IF lab(patient, "creatinine") > 15
            THEN <<"Renal dysfunction">> ELSE <<>>)
        \o (IF v.spO2 < 95 THEN <<"Hypoxemia">> ELSE <<>>)
        \o (IF patient.age > 70 THEN <<"Advanced age">> ELSE <<>>)

orLowRisk(factors) == IF Len(factors) > 0 THEN factors ELSE <<"Low risk profile">>

identifyRiskFactors(patient) ==
    Returned(orLowRisk(
        factorsBeforeComorbidities(patient)
        \o (IF patient.comorbidities # undefined
               /\ Len(patient.comorbidities[1]) > 2
            THEN <<"Multiple comorbidities">> ELSE <<>>)))

\* lib/ml-service.ts: patient.comorbidities.length without a guard.
libIdentifyRiskFactors(patient) ==
    IF patient.comorbidities = undefined THEN Thrown
    ELSE Returned(orLowRisk(
             factorsBeforeComorbidities(patient)
             \o (IF Len(patient.comorbidities[1]) > 2
                 THEN <<"Multiple comorbidities">> ELSE <<>>)))

Prediction(ready, conf, why, factors) ==
    [transferReady |-> ready, confidence |-> conf, reasoning |-> why,
     riskFactors |-> factors]

\* The catch block of fallbackPrediction.
conservative ==
    Prediction(FALSE, 500, "Unable to assess - requires clinical evaluation",
               <<"Assessment unavailable">>)

\* The chain with the lactate rule tried before the SOFA rule.
decideLactateFirst(patient, sofaScore, vitalStability, riskFactors) ==
    LET v == patient.vitals[1]
    IN  IF patient.onVentilator \/ patient.onPressors
        THEN Prediction(FALSE, 950,
               "Patient requires intensive care support (ventilator/pressors)",
               riskFactors)
        ELSE IF v.lactate > 40
        THEN Prediction(FALSE, 880,
               "Elevated lactate suggests ongoing tissue hypoperfusion",
               riskFactors)
        ELSE IF sofaScore >= 6
        THEN Prediction(FALSE, 900,
               "High SOFA score indicates multi-organ dysfunction", riskFactors)
        ELSE IF v.gcs < 13
        THEN Prediction(FALSE, 850,
               "Altered mental status requires continued ICU monitoring",
               riskFactors)
        ELSE IF vitalStability < 700
        THEN Prediction(FALSE, 800,
               "Unstable vital signs require continued intensive monitoring",
               riskFactors)
        ELSE Prediction(TRUE, Min(950, 700 + (vitalStability * 250) \div 1000),
               "Stable vitals, improving clinical parameters, suitable for step-down care",
               riskFactors)

\* The chain without the lactate rule.
decideWithoutLactate(patient, sofaScore, vitalStability, riskFactors) ==
    LET v == patient.vitals[1]
    IN  IF patient.onVentilator \/ patient.onPressors
        THEN Prediction(FALSE, 950,
               "Patient requires intensive care support (ventilator/pressors)",
               riskFactors)
        ELSE IF sofaScore >= 6
        THEN Prediction(FALSE, 900,
               "High SOFA score indicates multi-organ dysfunction", riskFactors)
        ELSE IF v.gcs < 13
        THEN Prediction(FALSE, 850,
               "Altered mental status requires continued ICU monitoring",
               riskFactors)
        ELSE IF vitalStability < 700
        THEN Prediction(FALSE, 800,
               "Unstable vital signs require continued intensive monitoring",
               riskFactors)
        ELSE Prediction(TRUE, Min(950, 700 + (vitalStability * 250) \div 1000),
               "Stable vitals, improving clinical parameters, suitable for step-down care",
               riskFactors)

\* The if / else-if chain of fallbackPrediction, first match wins.
decide(patient, sofaScore, vitalStability, riskFactors) ==
    LET v == patient.vitals[1]
    IN  IF patient.onVentilator \/ patient.onPressors
        THEN Prediction(FALSE, 950,
               "Patient requires intensive care support (ventilator/pressors)",
               riskFactors)
        ELSE IF sofaScore >= 6
        THEN Prediction(FALSE, 900,
               "High SOFA score indicates multi-organ dysfunction", riskFactors)
        ELSE IF v.lactate > 40
        THEN Prediction(FALSE, 880,
               "Elevated lactate suggests ongoing tissue hypoperfusion",
               riskFactors)
        ELSE IF v.gcs < 13
        THEN Prediction(FALSE, 850,
               "Altered mental status requires continued ICU monitoring",
               riskFactors)
        ELSE IF vitalStability < 700
        THEN Prediction(FALSE, 800,
               "Unstable vital signs require continued intensive monitoring",
               riskFactors)
        ELSE Prediction(TRUE, Min(950, 700 + (vitalStability * 250) \div 1000),
               "Stable vitals, improving clinical parameters, suitable for step-down care",
               riskFactors)

\* MLPredictionService.fallbackPrediction: a missing vitals record makes
\* calculateSOFAScore throw, which the catch turns into the conservative result.
fallbackPrediction(p) ==
    IF p.vitals = undefined THEN conservative
    ELSE decide(p, calculateSOFAScore(p), assessVitalStability(p.vitals[1]),
                identifyRiskFactors(p).value)

\* lib/ml-service.ts: the same, with the two unguarded uses of comorbidities.
libFallbackPrediction(p) ==
    IF p.vitals = undefined THEN conservative
    ELSE IF libCalculateComorbidityScore(p.comorbidities).threw THEN conservative
    ELSE IF libIdentifyRiskFactors(p).threw THEN conservative
    ELSE decide(p, calculateSOFAScore(p), assessVitalStability(p.vitals[1]),
                libIdentifyRiskFactors(p).value)

\* One HTTP exchange of the client: the request sent and how it ended.
ResponseKinds == {"network error", "non-2xx", "unreadable body", "2xx"}
Exchange(method, path, body, response) ==
    [method |-> method, path |-> path, body |-> body, response |-> response]

\* Answers of POST /predict.
PredictBodies ==
    {[prediction |-> "Ready", confidence |-> Some(870), probability |-> undefined],
     [prediction |-> "Not Ready", confidence |-> undefined,
      probability |-> Some(640)]}
PredictResponses ==
    {[kind |-> k, body |-> undefined] : k \in ResponseKinds \ {"2xx"}}
    \cup {[kind |-> "2xx", body |-> Some(b)] : b \in PredictBodies}

\* The payload of POST /predict.
payload(patient, score) ==
    LET v == patient.vitals[1]
    IN  [HR |-> v.heartRate, SpO2 |-> v.spO2, RESP |-> v.respiratoryRate,
         ABPsys |-> v.systolicBP, lactate |-> v.lactate, gcs |-> v.gcs,
         age |-> patient.age, comorbidity_score |-> score,
         on_vent |-> patient.onVentilator, on_pressors |-> patient.onPressors]

\* The return statement of callMLAPI.
verdict(result) ==
    Prediction(result.prediction = "Ready",
               IF Truthy(result.confidence) THEN result.confidence[1]
               ELSE result.probability[1],
               "ML model prediction", <<>>)

\* patient.comorbidityScore || this.calculateComorbidityScore(...)
comorbidity_score(patient, score) ==
    IF Truthy(patient.comorbidityScore)
    THEN Returned(patient.comorbidityScore[1]) ELSE score

\* callMLAPI from the payload on: what it sends and what it returns.
send(patient, score, resp, fallback) ==
    IF patient.vitals = undefined \/ comorbidity_score(patient, score).threw
    THEN [log |-> <<>>, result |-> fallback]
    ELSE [log |-> <<Exchange("POST", "/predict",
                             payload(patient,
                                     comorbidity_score(patient, score).value),
                             resp.kind)>>,
          result |-> IF resp.kind = "2xx" THEN verdict(resp.body[1])
                     ELSE fallback]

callMLAPI(p, resp) ==
    send(p, calculateComorbidityScore(p.comorbidities), resp,
         fallbackPrediction(p))

libCallMLAPI(p, resp) ==
    send(p, libCalculateComorbidityScore(p.comorbidities), resp,
         libFallbackPrediction(p))

NoPatient == undefined
NoPrediction == undefined
NoOutcome == [threw |-> FALSE, value |-> "none"]
NoRequest == undefined

ClientIdle ==
    /\ snapshot = NoPatient
    /\ prediction = NoPrediction
    /\ called = "none"
    /\ httpLog = <<>>
    /\ outcome = NoOutcome
    /\ srvRequest = NoRequest

\* Everything but the client variables, at rest.
realtimeFrame == <<transportVars, syncVars, workflowVars>>

FallbackPredict ==
    /\ called = "none"
    /\ called' = "fallbackPrediction"
    /\ prediction' = Some(fallbackPrediction(snapshot[1]))
    /\ outcome' = Returned("prediction")
    /\ UNCHANGED <<snapshot, httpLog, srvRequest, realtimeFrame>>

LibFallbackPredict ==
    /\ called = "none"
    /\ called' = "libFallbackPrediction"
    /\ prediction' = Some(libFallbackPrediction(snapshot[1]))
    /\ outcome' = Returned("prediction")
    /\ UNCHANGED <<snapshot, httpLog, srvRequest, realtimeFrame>>

CallMLAPI(resp) ==
    /\ called = "none"
    /\ called' = "callMLAPI"
    /\ prediction' = Some(callMLAPI(snapshot[1], resp).result)
    /\ httpLog' = callMLAPI(snapshot[1], resp).log
    /\ outcome' = Returned("prediction")
    /\ UNCHANGED <<snapshot, srvRequest, realtimeFrame>>

LibCallMLAPI(resp) ==
    /\ called = "none"
    /\ called' = "libCallMLAPI"
    /\ prediction' = Some(libCallMLAPI(snapshot[1], resp).result)
    /\ httpLog' = libCallMLAPI(snapshot[1], resp).log
    /\ outcome' = Returned("prediction")
    /\ UNCHANGED <<snapshot, srvRequest, realtimeFrame>>

----------------------------------------------------------------------------
\* Domain Client: the HTTP operations on patients and transfer requests.

Now == "now"
Departments == {"General Ward", "Cardiology"}

\* What an operation that throws on failure does with the answer.
throwing(method, path, body, resp, value) ==
    [log |-> <<Exchange(method, path, body, resp)>>,
     outcome |-> IF resp = "2xx" THEN Returned(value) ELSE Thrown]

\* lib/ml-service.ts getAllPatients / getTransferRequests: catch, log, return [].
substituting(method, path, body, resp, value) ==
    [log |-> <<Exchange(method, path, body, resp)>>,
     outcome |-> IF resp = "2xx" THEN Returned(value) ELSE Returned("[]")]

getAllPatients(resp) == throwing("GET", "/patients", undefined, resp, "patients")
getTransferRequests(resp) ==
    throwing("GET", "/transfer-requests", undefined, resp, "requests")
getDischargedPatients(resp) ==
    throwing("GET", "/discharged-patients", undefined, resp, "discharges")
libGetAllPatients(resp) ==
    substituting("GET", "/patients", undefined, resp, "patients")
libGetTransferRequests(resp) ==
    substituting("GET", "/transfer-requests", undefined, resp, "requests")

\* body: JSON.stringify(request), the draft as the caller built it.
createTransferRequest(request, resp) ==
    throwing("POST", "/transfer-request", request, resp, "request")

\* body: {...updateData, updated_at: new Date().toISOString()}
stamped(updateData) ==
    [f \in DOMAIN updateData \cup {"updated_at"} |->
        IF f = "updated_at" THEN Now ELSE updateData[f]]

updateTransferRequest(requestId, updateData, resp) ==
    throwing("PUT", <<"/transfer-request", requestId>>, stamped(updateData),
             resp, "request")

\* lib/ml-service.ts: body: JSON.stringify(updateData).
libUpdateTransferRequest(requestId, updateData, resp) ==
    throwing("PUT", <<"/transfer-request", requestId>>, updateData, resp,
             "request")

approveTransferRequest(requestId, doctorId, targetDepartment, resp) ==
    throwing("PUT", <<"/transfer-request", requestId, "approve">>,
             [doctor_id |-> doctorId, target_department |-> targetDepartment,
              notes |-> "Transfer approved by doctor"],
             resp, "request")

rejectTransferRequest(requestId, doctorId, resp) ==
    throwing("PUT", <<"/transfer-request", requestId, "reject">>,
             [doctor_id |-> doctorId,
              notes |-> "Transfer request rejected by doctor"],
             resp, "request")

adminApproveTransferRequest(requestId, adminId, targetDepartment, resp) ==
    throwing("PUT", <<"/transfer-request", requestId, "admin-approve">>,
             [admin_id |-> adminId, target_department |-> targetDepartment,
              notes |-> "Transfer approved by admin"],
             resp, "request")

dischargePatient(requestId, nurseId, resp) ==
    throwing("POST", <<"/transfer-request", requestId, "discharge">>,
             [nurse_id |-> nurseId, notes |-> ""], resp, "success")

\* The transfer request the server holds, as far as the approval is concerned.
Stored(id, status) ==
    [id |-> id, status |-> status, doctor_id |-> undefined,
     target_department |-> undefined]

\* The server processed the request (the answer may still be unreadable).
Processed(resp) == resp \in {"2xx", "unreadable body"}

\* PUT /transfer-request/{id}: the fields sent replace the stored ones.
BackendMerge(req, body) ==
    [req EXCEPT
       !.status = IF "status" \in DOMAIN body THEN body.status ELSE @,
       !.doctor_id = IF "doctor_id" \in DOMAIN body
                     THEN Some(body.doctor_id) ELSE @,
       !.target_department = IF "target_department" \in DOMAIN body
                             THEN Some(body.target_department) ELSE @]

\* PUT /transfer-request/{id}/approve.
BackendDoctorApprove(req, body) ==
    [req EXCEPT !.status = "doctor_approved",
                !.doctor_id = Some(body.doctor_id),
                !.target_department = Some(body.target_department)]

\* PUT .../reject, PUT .../admin-approve, POST .../discharge.
BackendSetStatus(req, status) == [req EXCEPT !.status = status]

\* A client call completes: its exchanges, what the caller gets, and what the
\* server holds afterwards.
Complete(name, call, stored) ==
    /\ called' = name
    /\ httpLog' = call.log
    /\ outcome' = call.outcome
    /\ srvRequest' = Some(stored)
    /\ UNCHANGED <<snapshot, prediction, realtimeFrame>>

GetAllPatients(resp) ==
    /\ called = "none"
    /\ Complete("getAllPatients", getAllPatients(resp), srvRequest[1])

LibGetAllPatients(resp) ==
    /\ called = "none"
    /\ Complete("libGetAllPatients", libGetAllPatients(resp), srvRequest[1])

GetTransferRequests(resp) ==
    /\ called = "none"
    /\ Complete("getTransferRequests", getTransferRequests(resp), srvRequest[1])

LibGetTransferRequests(resp) ==
    /\ called = "none"
    /\ Complete("libGetTransferRequests", libGetTransferRequests(resp),
                srvRequest[1])

GetDischargedPatients(resp) ==
    /\ called = "none"
    /\ Complete("getDischargedPatients", getDischargedPatients(resp),
                srvRequest[1])

\* handleNurseSubmit of the transfer-request modal.
handleNurseSubmit(resp) ==
    /\ called = "none"
    /\ Complete("createTransferRequest",
                createTransferRequest(
                    [patient_id |-> 1, nurse_id |-> "nurse", status |-> "pending",
                     notes |-> "", created_at |-> Now, updated_at |-> Now],
                    resp),
                srvRequest[1])

\* handleDoctorApproval of the review modal: a department must be chosen.
handleDoctorApproval(d, targetDepartment, resp) ==
    /\ called = "none"
    /\ srvRequest[1].status = "pending"
    /\ LET call == approveTransferRequest(srvRequest[1].id, d,
                                          targetDepartment, resp)
       IN  Complete("approveTransferRequest", call,
                    IF Processed(resp)
                    THEN BackendDoctorApprove(srvRequest[1], call.log[1].body)
                    ELSE srvRequest[1])

\* handleApprove of the doctor-review page on a request listed as pending,
\* through updateTransferRequest.
ReviewPageApprove(d, resp) ==
    /\ called = "none"
    /\ srvRequest[1].status = "pending"
    /\ LET call == updateTransferRequest(srvRequest[1].id,
                       [status |-> "doctor_approved", doctor_id |-> d,
                        updated_at |-> Now],
                       resp)
       IN  Complete("handleApprove", call,
                    IF Processed(resp)
                    THEN BackendMerge(srvRequest[1], call.log[1].body)
                    ELSE srvRequest[1])

\* handleReject of the doctor-review page on a request listed as pending,
\* through updateTransferRequest.
ReviewPageReject(d, resp) ==
    /\ called = "none"
    /\ srvRequest[1].status = "pending"
    /\ LET call == updateTransferRequest(srvRequest[1].id,
                       [status |-> "rejected", doctor_id |-> d,
                        notes |-> "Rejected by doctor", updated_at |-> Now],
                       resp)
       IN  Complete("updateTransferRequest", call,
                    IF Processed(resp)
                    THEN BackendMerge(srvRequest[1], call.log[1].body)
                    ELSE srvRequest[1])

\* The same update through the service of lib/ml-service.ts.
LibReviewPageReject(d, resp) ==
    /\ called = "none"
    /\ srvRequest[1].status = "pending"
    /\ LET call == libUpdateTransferRequest(srvRequest[1].id,
                       [status |-> "rejected", doctor_id |-> d,
                        notes |-> "Rejected by doctor", updated_at |-> Now],
                       resp)
       IN  Complete("libUpdateTransferRequest", call,
                    IF Processed(resp)
                    THEN BackendMerge(srvRequest[1], call.log[1].body)
                    ELSE srvRequest[1])

\* handleDoctorRejection of the review modal.
handleDoctorRejection(d, resp) ==
    /\ called = "none"
    /\ srvRequest[1].status = "pending"
    /\ Complete("rejectTransferRequest",
                rejectTransferRequest(srvRequest[1].id, d, resp),
                IF Processed(resp)
                THEN BackendSetStatus(srvRequest[1], "doctor_rejected")
                ELSE srvRequest[1])

\* handleAdminApproval of the review modal.
handleAdminApproval(targetDepartment, resp) ==
    /\ called = "none"
    /\ srvRequest[1].status = "doctor_approved"
    /\ Complete("adminApproveTransferRequest",
                adminApproveTransferRequest(srvRequest[1].id, "admin",
                                            targetDepartment, resp),
                IF Processed(resp)
                THEN [BackendSetStatus(srvRequest[1], "admin_approved")
                        EXCEPT !.target_department = Some(targetDepartment)]
                ELSE srvRequest[1])

\* 'Discharge' on the patient card.
DischargePatient(resp) ==
    /\ called = "none"
    /\ srvRequest[1].status = "admin_approved"
    /\ Complete("dischargePatient",
                dischargePatient(srvRequest[1].id, "nurse", resp),
                IF Processed(resp)
                THEN BackendSetStatus(srvRequest[1], "completed")
                ELSE srvRequest[1])

----------------------------------------------------------------------------

Init ==
    /\ socks = <<>>
    /\ ws = 0
    /\ isReconnecting = FALSE
    /\ timers = 0
    /\ lastConnect = "none"
    /\ lastBus = NoBus
    /\ listeners = NoListeners
    /\ patientDataCallback = NullCallback
    /\ transferRequestCallback = NullCallback
    /\ mounted = 0
    /\ nextInst = 1
    /\ inflight = {}
    /\ wsQueue = <<>>
    /\ srvPatients = InitialPatients
    /\ srvReqs = <<>>
    /\ ops = 0
    /\ patients = <<>>
    /\ transferRequests = <<>>
    /\ lastMsg = NoMsg
    /\ lastDelivery = NoDelivery
    /\ fetchFailed = FALSE
    /\ WorkflowIdle
    /\ ClientIdle

Next ==
    \/ ConnectCall
    \/ TimerFire
    \/ \E s \in SockIds : SocketOpen(s)
    \/ \E s \in SockIds : SocketFail(s)
    \/ \E s \in SockIds : CloseStart(s)
    \/ \E s \in SockIds : CloseDone(s)
    \/ Cleanup

Spec == Init /\ [][Next]_vars

\* The event bus of the Transport Client, before any socket exists.
BusNext ==
    \/ \E event \in BusEvents, cb \in BusCallbacks : AddListener(event, cb)
    \/ \E event \in BusEvents, cb \in BusCallbacks : RemoveListener(event, cb)

BusSpec == Init /\ [][BusNext]_vars

\* The dashboard's vitals handler on patient records in full: the six pushed
\* vitals, two vitals the backend does not push, the prediction, a
\* life-support flag and lastUpdated.
CachedPatient(id, heartRate) ==
    [id |-> id,
     vitals |-> [heartRate |-> heartRate, spO2 |-> 97, respiratoryRate |-> 16,
                 systolicBP |-> 120, lactate |-> 10, gcs |-> 15,
                 temperature |-> 986, diastolicBP |-> 80],
     prediction |-> [transferReady |-> heartRate < 90],
     onVentilator |-> id = 2,
     lastUpdated |-> "loaded"]

CachedPatients == {CachedPatient(id, heartRate) : id \in 1..2, heartRate \in {80, 95}}

CachedLists == UNION {[1..n -> CachedPatients] : n \in 0..MaxCached}

\* data.data of a vitals_update event
VitalsData ==
    [patient_id : 1..3, heartRate : {130}, spO2 : {88}, respiratoryRate : {30},
     systolicBP : {90}, lactate : {52}, gcs : {12}]

\* A handler that builds the vitals object from the pushed fields alone.
mapVitalsUpdateReplace(data, prevPatients) ==
    [i \in 1..Len(prevPatients) |->
        IF prevPatients[i].id = data.patient_id
        THEN [prevPatients[i] EXCEPT
                !.vitals = [heartRate |-> data.heartRate, spO2 |-> data.spO2,
                            respiratoryRate |-> data.respiratoryRate,
                            systolicBP |-> data.systolicBP,
                            lactate |-> data.lactate, gcs |-> data.gcs],
                !.lastUpdated = Now]
        ELSE prevPatients[i]]

\* handleVitalsUpdate: prevPatients.map(patient => patient.id ===
\* data.patient_id ? {...patient, vitals: {...patient.vitals, six fields},
\* lastUpdated: now} : patient)
mapVitalsUpdate(data, prevPatients) ==
    [i \in 1..Len(prevPatients) |->
        IF prevPatients[i].id = data.patient_id
        THEN [prevPatients[i] EXCEPT
                !.vitals = [@ EXCEPT !.heartRate = data.heartRate,
                                     !.spO2 = data.spO2,
                                     !.respiratoryRate = data.respiratoryRate,
                                     !.systolicBP = data.systolicBP,
                                     !.lactate = data.lactate,
                                     !.gcs = data.gcs],
                !.lastUpdated = Now]
        ELSE prevPatients[i]]

\* onmessage -> notifyListeners("vitals_update", data.data) ->
\* handleVitalsUpdate(data)
HandleVitalsUpdate ==
    /\ wsQueue # <<>>
    /\ LET parsed == JSONparse(Head(wsQueue))
       IN  /\ ~parsed.threw
           /\ parsed.value.type = "vitals_update"
           /\ patients' = mapVitalsUpdate(parsed.value.data, patients)
    /\ wsQueue' = Tail(wsQueue)
    /\ UNCHANGED <<transportVars, workflowVars, clientVars, listeners,
                   patientDataCallback, transferRequestCallback, mounted,
                   nextInst, inflight, srvPatients, srvReqs, ops,
                   transferRequests, lastMsg, lastDelivery, fetchFailed>>

\* A mounted dashboard with some cached list, one vitals_update pending.
VitalsInit ==
    /\ socks = <<"OPEN">>
    /\ ws = 1
    /\ isReconnecting = FALSE
    /\ timers = 0
    /\ lastConnect = "created"
    /\ lastBus = NoBus
    /\ listeners = NoListeners
    /\ patientDataCallback = NullCallback
    /\ transferRequestCallback = NullCallback
    /\ mounted = 1
    /\ nextInst = 2
    /\ inflight = {}
    /\ \E data \in VitalsData :
            wsQueue = <<stringify([type |-> "vitals_update", data |-> data])>>
    /\ srvPatients = <<>>
    /\ srvReqs = <<>>
    /\ ops = 0
    /\ patients \in CachedLists
    /\ transferRequests = <<>>
    /\ lastMsg = NoMsg
    /\ lastDelivery = NoDelivery
    /\ fetchFailed = FALSE
    /\ WorkflowIdle
    /\ ClientIdle

VitalsNext == HandleVitalsUpdate

VitalsSpec == VitalsInit /\ [][VitalsNext]_vars

\* The admin dashboard has loaded the doctor_approved requests, all for one
\* department: General Ward or ICU.
BedInit ==
    /\ socks = <<"OPEN">>
    /\ ws = 1
    /\ isReconnecting = FALSE
    /\ timers = 0
    /\ lastConnect = "created"
    /\ lastBus = NoBus
    /\ listeners = NoListeners
    /\ patientDataCallback = NullCallback
    /\ transferRequestCallback = NullCallback
    /\ mounted = 0
    /\ nextInst = 1
    /\ inflight = {}
    /\ wsQueue = <<>>
    /\ srvPatients = InitialPatients
    /\ srvReqs = [i \in 1..MaxWorkflowRequests |-> Request(i, i, "doctor_approved")]
    /\ ops = 0
    /\ patients = <<>>
    /\ transferRequests = <<>>
    /\ lastMsg = NoMsg
    /\ lastDelivery = NoDelivery
    /\ fetchFailed = FALSE
    /\ doctorReqs = [d \in Doctors |-> <<>>]
    /\ adminReqs = srvReqs
    /\ bedAvailability \in {GeneralWardBeds, ICUBeds}
    /\ dischargeCalls = [r \in 1..MaxWorkflowRequests |-> 0]
    /\ ClientIdle

BedNext ==
    \/ \E i \in 1..MaxWorkflowRequests : AdminApproveClick(i)
    \/ \E f \in inflight : AdminApproveDone(f)
    \/ \E f \in inflight : AdminApproveFailed(f)

BedSpec == BedInit /\ [][BedNext]_vars

\* The Sync Coordinator is observed with the socket open: a dashboard loads
\* against a backend that may already hold an approved transfer request.
SyncInit ==
    /\ socks = <<"OPEN">>
    /\ ws = 1
    /\ isReconnecting = FALSE
    /\ timers = 0
    /\ lastConnect = "created"
    /\ lastBus = NoBus
    /\ listeners = NoListeners
    /\ patientDataCallback = NullCallback
    /\ transferRequestCallback = NullCallback
    /\ mounted = 0
    /\ nextInst = 1
    /\ inflight = {}
    /\ wsQueue = <<>>
    /\ srvPatients = InitialPatients
    /\ srvReqs \in {<<>>, <<Request(1, 1, "admin_approved")>>}
    /\ ops = 0
    /\ patients = <<>>
    /\ transferRequests = <<>>
    /\ lastMsg = NoMsg
    /\ lastDelivery = NoDelivery
    /\ fetchFailed = FALSE
    /\ WorkflowIdle
    /\ ClientIdle

SyncNext ==
    \/ OnMessage
    \/ Mount
    \/ Unmount
    \/ Refresh
    \/ \E fn \in {"okListener", "throwingListener"} : Subscribe("other", fn)
    \/ \E fn \in {"okListener", "throwingListener"} : Unsubscribe("other", fn)
    \/ \E f \in inflight : ServerAnswer(f)
    \/ \E f \in inflight : Deliver(f)
    \/ \E f \in inflight : FetchFail(f)
    \/ \E t \in {"vitals_update", "patient_updated"},
          i \in 1..MaxPatients, hr \in 0..MaxHr : SrvPatientChange(t, i, hr)
    \/ \E pid \in 1..MaxPatients : SrvRequestCreated(pid)
    \/ \E i \in 1..MaxRequests,
          status \in {"doctor_approved", "rejected", "admin_approved"} :
            SrvRequestUpdated(i, status)
    \/ \E i \in 1..MaxRequests : SrvDischarged(i)
    \/ SrvOther
    \/ SrvMalformed

SyncSpec == SyncInit /\ [][SyncNext]_vars

\* The event bus of lib/ml-service.ts, observed with the socket open.
LibNext ==
    \/ LibConnectCall
    \/ libOnMessage
    \/ \E fn \in {"okListener", "throwingListener"} : Subscribe("other", fn)
    \/ \E fn \in {"okListener", "throwingListener"} : Unsubscribe("other", fn)
    \/ \E t \in {"vitals_update", "patient_updated"},
          i \in 1..MaxPatients, hr \in 0..MaxHr : SrvPatientChange(t, i, hr)
    \/ \E pid \in 1..MaxPatients : SrvRequestCreated(pid)
    \/ \E i \in 1..MaxRequests,
          status \in {"doctor_approved", "rejected", "admin_approved"} :
            SrvRequestUpdated(i, status)
    \/ \E i \in 1..MaxRequests : SrvDischarged(i)
    \/ SrvOther
    \/ SrvMalformed

LibSpec == SyncInit /\ [][LibNext]_vars

\* The workflow is observed with the socket open, the nurse dashboard mounted
\* and showing the roster, and no transfer request made yet.
WorkflowInit ==
    /\ socks = <<"OPEN">>
    /\ ws = 1
    /\ isReconnecting = FALSE
    /\ timers = 0
    /\ lastConnect = "created"
    /\ lastBus = NoBus
    /\ listeners = addDashboardListeners(NoListeners, 1)
    /\ patientDataCallback = 1
    /\ transferRequestCallback = 1
    /\ mounted = 1
    /\ nextInst = 2
    /\ inflight = {}
    /\ wsQueue = <<>>
    /\ srvPatients = InitialPatients
    /\ srvReqs = <<>>
    /\ ops = 0
    /\ patients = InitialPatients
    /\ transferRequests = <<>>
    /\ lastMsg = NoMsg
    /\ lastDelivery = NoDelivery
    /\ fetchFailed = FALSE
    /\ WorkflowIdle
    /\ ClientIdle

WorkflowNext ==
    \/ \E p \in 1..MaxPatients : NurseRequestTransfer(p)
    \/ \E p \in 1..MaxPatients : ShiftPatient(p)
    \/ NurseFetchPatients
    \/ NurseFetchTransferRequests
    \/ \E d \in Doctors, i \in 1..MaxWorkflowRequests : handleApprove(d, i)
    \/ \E d \in Doctors, i \in 1..MaxWorkflowRequests : handleReject(d, i)
    \/ \E d \in Doctors : DoctorFetchTransferRequests(d)
    \/ \E i \in 1..MaxWorkflowRequests : handleApproveTransfer(i)
    \/ \E i \in 1..MaxWorkflowRequests : handleRejectTransfer(i)
    \/ AdminFetchTransferRequests

WorkflowSpec == WorkflowInit /\ [][WorkflowNext]_vars

\* The rule engine and POST /predict are observed one call at a time, on a
\* snapshot drawn from Patients or on the broken one.
FallbackInit ==
    /\ socks = <<>>
    /\ ws = 0
    /\ isReconnecting = FALSE
    /\ timers = 0
    /\ lastConnect = "none"
    /\ lastBus = NoBus
    /\ listeners = NoListeners
    /\ patientDataCallback = NullCallback
    /\ transferRequestCallback = NullCallback
    /\ mounted = 0
    /\ nextInst = 1
    /\ inflight = {}
    /\ wsQueue = <<>>
    /\ srvPatients = InitialPatients
    /\ srvReqs = <<>>
    /\ ops = 0
    /\ patients = <<>>
    /\ transferRequests = <<>>
    /\ lastMsg = NoMsg
    /\ lastDelivery = NoDelivery
    /\ fetchFailed = FALSE
    /\ WorkflowIdle
    /\ snapshot \in {Some(p) : p \in Patients \cup {BrokenPatient}}
    /\ prediction = NoPrediction
    /\ called = "none"
    /\ httpLog = <<>>
    /\ outcome = NoOutcome
    /\ srvRequest = NoRequest

FallbackNext ==
    \/ FallbackPredict
    \/ LibFallbackPredict
    \/ \E resp \in PredictResponses : CallMLAPI(resp)
    \/ \E resp \in PredictResponses : LibCallMLAPI(resp)

FallbackSpec == FallbackInit /\ [][FallbackNext]_vars

\* The Domain Client is observed one call at a time, on a transfer request
\* the server holds in one of the statuses before completion.
ClientInit ==
    /\ socks = <<>>
    /\ ws = 0
    /\ isReconnecting = FALSE
    /\ timers = 0
    /\ lastConnect = "none"
    /\ lastBus = NoBus
    /\ listeners = NoListeners
    /\ patientDataCallback = NullCallback
    /\ transferRequestCallback = NullCallback
    /\ mounted = 0
    /\ nextInst = 1
    /\ inflight = {}
    /\ wsQueue = <<>>
    /\ srvPatients = InitialPatients
    /\ srvReqs = <<>>
    /\ ops = 0
    /\ patients = <<>>
    /\ transferRequests = <<>>
    /\ lastMsg = NoMsg
    /\ lastDelivery = NoDelivery
    /\ fetchFailed = FALSE
    /\ WorkflowIdle
    /\ snapshot = NoPatient
    /\ prediction = NoPrediction
    /\ called = "none"
    /\ httpLog = <<>>
    /\ outcome = NoOutcome
    /\ srvRequest \in {Some(Stored(id, status)) :
                         id \in 1..MaxWorkflowRequests,
                         status \in ActiveStatuses}

ClientNext ==
    \/ \E resp \in ResponseKinds : GetAllPatients(resp)
    \/ \E resp \in ResponseKinds : LibGetAllPatients(resp)
    \/ \E resp \in ResponseKinds : GetTransferRequests(resp)
    \/ \E resp \in ResponseKinds : LibGetTransferRequests(resp)
    \/ \E resp \in ResponseKinds : GetDischargedPatients(resp)
    \/ \E resp \in ResponseKinds : handleNurseSubmit(resp)
    \/ \E d \in Doctors, t \in Departments, resp \in ResponseKinds :
          handleDoctorApproval(d, t, resp)
    \/ \E d \in Doctors, resp \in ResponseKinds : ReviewPageApprove(d, resp)
    \/ \E d \in Doctors, resp \in ResponseKinds : ReviewPageReject(d, resp)
    \/ \E d \in Doctors, resp \in ResponseKinds : LibReviewPageReject(d, resp)
    \/ \E d \in Doctors, resp \in ResponseKinds : handleDoctorRejection(d, resp)
    \/ \E t \in Departments, resp \in ResponseKinds : handleAdminApproval(t, resp)
    \/ \E resp \in ResponseKinds : DischargePatient(resp)

ClientSpec == ClientInit /\ [][ClientNext]_vars

----------------------------------------------------------------------------
\* C1: at most one socket is live (CONNECTING or OPEN) at any time.
AtMostOneLiveSocket == Cardinality(LiveSockets) <= 1

\* C2: once a socket has closed, the reconnect loop is never idle: whenever no
\* socket is open, connecting or still closing, a reconnect timer is pending.
ReconnectLoopNeverGivesUp ==
    ((\E s \in SockIds : socks[s] = "CLOSED")
        /\ (\A s \in SockIds : socks[s] = "CLOSED"))
    => timers > 0

\* C3: notifyListeners never lets an exception reach its caller, and it invokes
\* every subscriber registered for the event exactly once, in registration
\* order, whether or not some of them throw (none registered: none invoked).
NotifyInvokesAllInOrder ==
    /\ lastMsg.escaped = FALSE
    /\ lastMsg.invoked = lastMsg.subs

\* C4: a patient_discharged message received while both refresh callbacks are
\* registered issues exactly one GET /patients and one GET /transfer-requests.
DischargeRefetchesOnce ==
    (lastMsg.type = "patient_discharged"
        /\ lastMsg.slotP # NullCallback /\ lastMsg.slotR # NullCallback)
    => (lastMsg.getP = 1 /\ lastMsg.getR = 1)

DeliveredToCurrentCallback ==
    lastDelivery.kind # "none" => lastDelivery.cb = lastDelivery.atDelivery

\* C6: every refetch result is delivered to the callback that was registered
\* in the slot when the refetch was triggered; a callback registered later
\* receives only the results of refetches triggered after its registration.
DeliveredToCallbackAtTrigger ==
    lastDelivery.kind # "none" => lastDelivery.cb = lastDelivery.atTrigger

\* C6 witness: a result arrived after the slot's callback had been replaced
\* while the refetch was in flight.
DeliveredAfterReplacement ==
    /\ lastDelivery.kind # "none"
    /\ lastDelivery.atTrigger # lastDelivery.atDelivery
    /\ lastDelivery.cb = lastDelivery.atTrigger

\* C7: once no event is pending, every GET has completed and none has failed,
\* the mounted dashboard's patient list and transfer-request list equal the
\* server's collections.
QuiescentConsistent ==
    (mounted # 0 /\ wsQueue = <<>> /\ inflight = {} /\ ~fetchFailed)
    => (patients = srvPatients /\ transferRequests = srvReqs)

\* C8: a transfer request's status changes only along the edges
\* pending -> doctor_approved, pending -> rejected / doctor_rejected,
\* doctor_approved -> admin_approved, doctor_approved -> admin_rejected and
\* admin_approved -> completed.
StatusChangesAlongLegalEdges ==
    [][\A i \in 1..Len(srvReqs) :
          srvReqs'[i].status # srvReqs[i].status
          => <<srvReqs[i].status, srvReqs'[i].status>> \in LegalEdges]_vars

DischargedAtMostOnce ==
    \A r \in 1..MaxWorkflowRequests : dischargeCalls[r] <= 1

\* C13: callMLAPI never throws; on a valid snapshot it returns the endpoint's
\* verdict when POST /predict answers 2xx with a readable body, and it returns
\* fallbackPrediction(patient) when, and only when, the one request it sent
\* failed, was answered non-2xx, or had an unreadable body.
FallbackOnlyOnEndpointFailure ==
    (called \in {"callMLAPI", "libCallMLAPI"} /\ snapshot[1].vitals # undefined)
    => LET fallback == IF called = "callMLAPI"
                       THEN fallbackPrediction(snapshot[1])
                       ELSE libFallbackPrediction(snapshot[1])
           failed == Len(httpLog) = 1 /\ httpLog[1].response # "2xx"
       IN  /\ ~outcome.threw
           /\ (prediction = Some(fallback)) <=> failed
           /\ ~failed => (Len(httpLog) = 1
                          /\ prediction[1].reasoning = "ML model prediction")

\* C16: on a valid snapshot with onVentilator or onPressors set, whatever the
\* other fields are (comorbidities may be absent), fallbackPrediction returns
\* transferReady = false with confidence 0.95.
LifeSupportNeverReady ==
    (/\ called \in {"fallbackPrediction", "libFallbackPrediction"}
     /\ snapshot[1].vitals # undefined
     /\ (snapshot[1].onVentilator \/ snapshot[1].onPressors))
    => (~prediction[1].transferReady /\ prediction[1].confidence = 950)

\* C17: on a valid snapshot the pair (transferReady, confidence) returned by
\* fallbackPrediction is that of the ordered decision list: life support ->
\* (false, 0.95); SOFA >= 6 -> (false, 0.90); lactate > 4.0 -> (false, 0.88);
\* GCS < 13 -> (false, 0.85); stability < 0.7 -> (false, 0.80); otherwise
\* (true, min(0.95, 0.7 + 0.25 * stability)).
FallbackFollowsDecisionList ==
    (called = "fallbackPrediction" /\ snapshot[1].vitals # undefined)
    => LET p == snapshot[1]
           sofa == calculateSOFAScore(p)
           stability == assessVitalStability(p.vitals[1])
           listed ==
             CASE p.onVentilator \/ p.onPressors -> <<FALSE, 950>>
               [] ~(p.onVentilator \/ p.onPressors) /\ sofa >= 6 -> <<FALSE, 900>>
               [] OTHER ->
                    IF p.vitals[1].lactate > 40 THEN <<FALSE, 880>>
                    ELSE IF p.vitals[1].gcs < 13 THEN <<FALSE, 850>>
                    ELSE IF stability < 700 THEN <<FALSE, 800>>
                    ELSE <<TRUE, IF 700 + stability \div 4 > 950 THEN 950
                                 ELSE 700 + stability \div 4>>
       IN  <<prediction[1].transferReady, prediction[1].confidence>> = listed

\* C17 witness: the last rule of the list was reached on a snapshot whose
\* stability is below 1.0, and the verdict is ready.
ReadyBelowFullStability ==
    /\ called = "fallbackPrediction"
    /\ snapshot[1].vitals # undefined
    /\ prediction[1].transferReady
    /\ prediction[1].confidence < 950

\* C18: assessVitalStability does not grow when a single vital (heart rate,
\* SpO2, systolic BP, diastolic BP, temperature, respiratory rate) is moved
\* further from its safe band, the other vitals staying as they are.  The
\* bands are those of the code: heart rate 60..120, SpO2 from 95, systolic
\* up to 180, temperature 96..101.5, respiratory rate 12..24, and for the
\* two pressures the values that keep the mean arterial pressure at 65.
StabilityMonotone ==
    (called = "fallbackPrediction" /\ snapshot[1].vitals # undefined)
    => LET v == snapshot[1].vitals[1]
           further(lo, hi, a, b) == (b < a /\ a <= lo) \/ (b > a /\ a >= hi)
           stab(field, x) == assessVitalStability([v EXCEPT ![field] = x])
           stabOpt(field, x) == assessVitalStability([v EXCEPT ![field] = Some(x)])
           mono(field, lo, hi, values) ==
             \A a, b \in values :
                further(lo, hi, a, b) => stab(field, b) <= stab(field, a)
           monoOpt(field, lo, hi, values) ==
             \A a, b \in values :
                further(lo, hi, a, b) => stabOpt(field, b) <= stabOpt(field, a)
       IN  /\ mono("heartRate", 60, 120, {40, 55, 90, 130, 150})
           /\ mono("spO2", 95, 100, {85, 93, 97, 100})
           /\ mono("systolicBP", 195 - (map3(v) - v.systolicBP), 180,
                   {60, 90, 120, 170, 190, 200})
           /\ monoOpt("diastolicBP", (195 - v.systolicBP) \div 2, 300,
                      {0, 30, 60, 80})
           /\ monoOpt("temperature", 960, 1015, {0, 950, 986, 1020, 1040})
           /\ mono("respiratoryRate", 12, 24, {8, 11, 18, 26, 30})

\* C19 as stated: on a valid snapshot with lactate > 4.0 and not on a
\* ventilator, fallbackPrediction's verdict is not-ready, its reasoning
\* mentions lactate and its risk factors include "Elevated lactate".
ElevatedLactateNamedInReasoning ==
    (/\ called = "fallbackPrediction"
     /\ snapshot[1].vitals # undefined
     /\ snapshot[1].vitals[1].lactate > 40
     /\ ~snapshot[1].onVentilator)
    => /\ ~prediction[1].transferReady
       /\ prediction[1].reasoning
            = "Elevated lactate suggests ongoing tissue hypoperfusion"
       /\ \E i \in DOMAIN prediction[1].riskFactors :
             prediction[1].riskFactors[i] = "Elevated lactate"

\* C19 amended: on a valid snapshot with lactate > 4.0 the verdict is
\* not-ready and the risk factors include "Elevated lactate"; the reasoning
\* mentions lactate when, in addition, the patient is on neither ventilator
\* nor pressors and the SOFA score is below 6.
ElevatedLactateNotReady ==
    (/\ called = "fallbackPrediction"
     /\ snapshot[1].vitals # undefined
     /\ snapshot[1].vitals[1].lactate > 40)
    => /\ ~prediction[1].transferReady
       /\ \E i \in DOMAIN prediction[1].riskFactors :
             prediction[1].riskFactors[i] = "Elevated lactate"
       /\ (/\ ~snapshot[1].onVentilator
           /\ ~snapshot[1].onPressors
           /\ calculateSOFAScore(snapshot[1]) < 6)
          => prediction[1].reasoning
               = "Elevated lactate suggests ongoing tissue hypoperfusion"

\* C19 witness: the lactate rule decided a verdict.
LactateRuleDecided ==
    /\ called = "fallbackPrediction"
    /\ snapshot[1].vitals # undefined
    /\ snapshot[1].vitals[1].lactate > 40
    /\ ~snapshot[1].onVentilator
    /\ prediction[1].confidence = 880

\* C20: fallbackPrediction returns without throwing on every snapshot; on a
\* valid snapshot (optional labValues, comorbidities, diastolicBP and
\* temperature possibly absent) it does not return the conservative result;
\* and the risk-factor list is never empty.
ConservativeOnlyOnError ==
    called \in {"fallbackPrediction", "libFallbackPrediction"}
    => /\ ~outcome.threw
       /\ snapshot[1].vitals # undefined => prediction[1] # conservative
       /\ prediction[1].riskFactors # <<>>

\* C11: a doctor approval by actor d with target department T on a pending
\* request leaves the request doctor_approved with doctor_id d and
\* target_department T, through approveTransferRequest from the review modal
\* and through handleApprove on the doctor-review page.
DoctorApprovalRecordsDepartment ==
    (/\ called \in {"approveTransferRequest", "handleApprove"}
     /\ httpLog[1].response = "2xx")
    => /\ srvRequest[1].status = "doctor_approved"
       /\ srvRequest[1].doctor_id = Some(httpLog[1].body.doctor_id)
       /\ srvRequest[1].target_department \in {Some(t) : t \in Departments}
       /\ "target_department" \in DOMAIN httpLog[1].body
          => srvRequest[1].target_department
               = Some(httpLog[1].body.target_department)

\* C12: every Domain Client operation other than predict issues exactly one
\* HTTP request per call, and a network failure, a non-2xx answer or an
\* unreadable body reaches the caller as a thrown error, never as a value.
FailureSurfacesAsThrow ==
    called # "none"
    => /\ Len(httpLog) = 1
       /\ httpLog[1].response # "2xx" => outcome.threw

\* C15: every mutating Domain Client call (create, update, doctor approve,
\* doctor reject, admin approve, discharge) sends a body that contains
\* updated_at, stamped by the client at send time.
MutationsCarryUpdatedAt ==
    (called # "none" /\ httpLog[1].method \in {"POST", "PUT"})
    => /\ "updated_at" \in DOMAIN httpLog[1].body
       /\ httpLog[1].body.updated_at = Now

\* C14: when an event-triggered refetch fails, the slot callback is not
\* invoked, the cached collections keep their values and no request is issued
\* in its place; a later refetch that succeeds, event-triggered or manual,
\* replaces the mounted dashboard's collection with the server's answer.
RefetchFailureKeepsCache ==
    [][\A f \in inflight :
          /\ (f.cont = "slot" /\ FetchFail(f))
             => /\ patients' = patients
                /\ transferRequests' = transferRequests
                /\ lastDelivery' = lastDelivery
                /\ inflight' = inflight \ {f}
          /\ (/\ Deliver(f)
              /\ f.cont \in {"slot", "fetch"}
              /\ mounted # 0
              /\ (IF f.cont = "slot" THEN SlotTarget(f) ELSE f.inst) = mounted)
             => /\ f.kind = "patients" => patients' = f.pbody
                /\ f.kind = "requests" => transferRequests' = f.rbody]_vars

\* C14 witness: a patient_updated event triggered a refetch, that refetch
\* failed (nothing is in flight and no slot callback was ever invoked), and
\* the mounted dashboard still shows the list from before the change.
RefetchFailedCacheStale ==
    /\ mounted # 0
    /\ lastMsg.type = "patient_updated"
    /\ lastMsg.getP = 1
    /\ wsQueue = <<>>
    /\ inflight = {}
    /\ fetchFailed
    /\ lastDelivery = NoDelivery
    /\ patients # <<>>
    /\ patients # srvPatients

\* C21: a connectWebSocket() call made while a reconnect is scheduled (a
\* socket has closed and its reconnect timer has not fired yet) is a no-op:
\* it creates no socket and changes no Transport Client state.
ConnectWhileScheduledIsNoop ==
    [][(timers > 0 /\ ConnectCall) => UNCHANGED <<socks, ws, isReconnecting>>]_vars

MalformedMessageDropped ==
    [][/\ (wsQueue # <<>> /\ Head(wsQueue) = NotJSON /\ OnMessage)
            => /\ lastMsg'.invoked = <<>>
               /\ lastMsg'.getP = 0 /\ lastMsg'.getR = 0
               /\ ~lastMsg'.escaped
               /\ UNCHANGED <<transportVars, inflight, patients, transferRequests,
                              listeners, patientDataCallback,
                              transferRequestCallback, lastDelivery>>
       /\ (wsQueue # <<>> /\ Head(wsQueue) # NotJSON /\ lastMsg.dropped > 0
              /\ OnMessage)
            => /\ lastMsg'.type = Head(wsQueue).body.type
               /\ Len(lastMsg'.invoked) = Len(listeners[lastMsg'.type])
               /\ ~lastMsg'.escaped]_vars

DispatchedAfterMalformed ==
    /\ lastMsg.dropped > 0
    /\ lastMsg.type = "vitals_update"
    /\ Len(lastMsg.invoked) > 0
    /\ lastMsg.getP = 1

\* C24: removeListener(event, cb) removes exactly the earliest occurrence of
\* cb from the event's list and keeps every other subscriber, later
\* duplicates of cb and the lists of other events included, in order; it
\* changes nothing when cb is not registered; addListener(event, cb) appends
\* cb at the end, registered already or not.
RemoveListenerRemovesEarliest ==
    LET old == lastBus.before[lastBus.event]
        new == listeners[lastBus.event]
        cb == lastBus.cb
    IN  /\ lastBus.op # "none" =>
                \A e \in DOMAIN listeners \ {lastBus.event} :
                    listeners[e] = lastBus.before[e]
        /\ lastBus.op = "removeListener" =>
                IF \A i \in 1..Len(old) : old[i] # cb
                THEN new = old
                ELSE \E i \in 1..Len(old) :
                        /\ old[i] = cb
                        /\ \A j \in 1..(i - 1) : old[j] # cb
                        /\ Len(new) = Len(old) - 1
                        /\ \A k \in 1..Len(new) :
                              new[k] = IF k < i THEN old[k] ELSE old[k + 1]
        /\ lastBus.op = "addListener" =>
                /\ Len(new) = Len(old) + 1
                /\ new[Len(new)] = cb
                /\ \A k \in 1..Len(old) : new[k] = old[k]

EarliestDuplicateRemoved ==
    /\ lastBus.op = "removeListener"
    /\ lastBus.event = "other"
    /\ lastBus.cb = Listener("okListener", 0)
    /\ lastBus.before["other"] = <<Listener("okListener", 0),
                                   Listener("throwingListener", 0),
                                   Listener("okListener", 0)>>
    /\ listeners["other"] = <<Listener("throwingListener", 0),
                              Listener("okListener", 0)>>
    /\ listeners["vitals_update"] # <<>>

\* C25: the 'Request Transfer' button of a patient card is enabled only if
\* the patient's prediction is transferReady and the patient is on neither
\* ventilator nor pressors, whatever transfer requests are cached for the
\* patient.
RequestTransferOnlyWhenReady ==
    \A p \in 1..Len(patients) :
        \A onLifeSupport \in BOOLEAN, transferReady \in BOOLEAN :
            ~getButtonState(transferRequests, patients[p].id, onLifeSupport,
                            transferReady)
                => (transferReady /\ ~onLifeSupport)

\* C26: assessVitalStability applies the severe-band penalties: with the
\* other vitals as they are, a heart rate below 50 or above 140 costs 0.4
\* of stability and an SpO2 below 92 costs 0.5, measured against the same
\* snapshot with the vital inside its safe band.
SevereBandPenaltiesApplied ==
    (called \in {"fallbackPrediction", "libFallbackPrediction"}
        /\ snapshot[1].vitals # undefined)
    => LET v == snapshot[1].vitals[1]
           hrSafe == assessVitalStability([v EXCEPT !.heartRate = 90])
           oxSafe == assessVitalStability([v EXCEPT !.spO2 = 98])
       IN  /\ \A hr \in {45, 150} :
                hrSafe >= 400 =>
                    assessVitalStability([v EXCEPT !.heartRate = hr]) = hrSafe - 400
           /\ \A ox \in {85, 91} :
                oxSafe >= 500 =>
                    assessVitalStability([v EXCEPT !.spO2 = ox]) = oxSafe - 500

BedsNeverNegative == bedAvailability >= 0

\* C29: the dashboard's cached transfer-request list never holds two entries
\* with the same request id, for any interleaving of list-fetch responses
\* and transfer_request_created / transfer_request_updated events.
NoDuplicateRequestIds ==
    \A i, j \in 1..Len(transferRequests) :
        i # j => transferRequests[i].id # transferRequests[j].id

\* C30: after cleanup() the socket handle is null and the listener map is
\* empty, and while the handle is null no socket is created except by a
\* connectWebSocket() call of the application: the close event of the socket
\* that cleanup() closed does not lead to a reconnect.
NoReconnectAfterCleanup ==
    [][/\ (ws # 0 /\ ws' = 0) => listeners' = NoListeners
       /\ (ws = 0 /\ Len(socks') > Len(socks)) => ConnectCall]_vars

====
